---- MODULE Spec2Model ----
(***************************************************************************)
(* A model of the hiring agent's core: the Gmail sync orchestrator and its *)
(* lock, candidate deduplication, the Gmail and Outlook ingestion          *)
(* cycles, the analysis writer, the scoring engine, the interview          *)
(* questions, the candidate-job links and the activity log.  Each part has *)
(* its own specification (SpecSync, SpecDedup, SpecGmail, SpecOutlook,     *)
(* SpecAnalyze, SpecScore, SpecQuestions, SpecLink, SpecLog, SpecRank); under *)
(* it the variables of the other parts stay at their initial values.       *)
(***************************************************************************)
EXTENDS Integers, Sequences, FiniteSets, TLC

VARIABLES
    \* ---- sync orchestrator (gmail_sync_service.py, app.py, routers/gmail.py)
    sync_lock,      \* GmailSyncService._sync_lock: TRUE while the lock is held
    sync_waiters,   \* tasks queued on the lock, in arrival order
    pc,             \* where each task is
    todo,           \* imported candidates a task's cycle still has to visit
    cycles,         \* sync calls made so far (bounds the run)
    sched,          \* the scheduler task: its interval, whether cancel() was
                    \* called on it, and the scheduled syncs that raised
    \* ---- candidate store and submissions (routers/candidates.py)
    candidates,     \* the committed Candidate rows [name, email], in id order
    last_sub,       \* the submission that completed last, and its outcome
    \* ---- Gmail ingestion cycle (gmail_ingestion_service.py)
    unread,         \* the messages the mailbox holds unread (not \Seen)
    g_pc,           \* where the ingestion cycle is
    g_msgs,         \* the fetched messages still to process, current one first
    g_att,          \* index of the next attachment of the current message
    g_successful,   \* `successful` of the current message
    g_result,       \* the counters and lists of GmailIngestionResult
    g_cycles,       \* ingestion cycles started so far (bounds the run)
    g_before,       \* attachments that earlier cycles processed and committed
    g_now,          \* attachments the current cycle processed and committed
    last_att,       \* the attachment processed last, and what happened
    g_seen,         \* the messages whose \Seen flag the current cycle has set
    \* ---- Outlook ingestion (outlook_ingestion_service.py, routers/outlook.py)
    o_unread,       \* the messages the Outlook mailbox holds unread
    o_rows,         \* the committed OutlookCandidate rows, in id order
    o_pc,           \* where each ingest request is
    o_msgs,         \* per request: fetched messages still to process
    o_atts,         \* per request: valid attachments of the message still to process
    o_successful,   \* per request: `successful` of the current message
    o_result,       \* per request: the counters of IngestionResult
    o_runs,         \* ingest requests started so far (bounds the run)
    \* ---- analysis writer (hiring_agent.py, database/connection.py)
    db_runs,        \* the committed CandidateAnalysisRun rows, in id order
    db_analyses,    \* the committed CandidateAnalysis rows
    db_writer,      \* the caller whose connection holds SQLite's write lock
    a_pc,           \* where each caller's analyze_candidate call is
    a_call,         \* per caller: the locals of the call
    a_session_ok,   \* per caller: FALSE once the session needs a rollback
    a_hist,         \* every call made so far, by number, and how it ended
    clock,          \* calls started so far; a call's number is its timestamp
    \* ---- scoring engine (config/settings.py, scoring_engine.py)
    sc_env,         \* the configuration read at the last process start
    sc_load,        \* "none" before get_settings(), then "loaded" or "raised"
    sc_prev,        \* the score_candidate call before the last one
    sc_last,        \* the last score_candidate call
    \* ---- interview questions (hiring_agent.py)
    q_pc,           \* where _ensure_min_interview_questions is
    q_ctx,          \* primary_skill, role_title and domain of the call
    q_todo,         \* the categories still to do, current one first
    q_raw,          \* per category: what the backend returned
    q_data,         \* per category: analysis_data[key] after ensure_minimum
    q_questions,    \* `questions` of the current ensure_minimum
    q_fb,           \* index of the next fallback of the for loop
    q_iters,        \* loop iterations of the current ensure_minimum
    \* ---- candidate-job links (routers/candidates.py)
    k_jobs,         \* the JobDescription rows, in id order
    k_cands,        \* the ids of the stored candidates
    k_next,         \* the id the next candidate gets
    k_links,        \* the committed CandidateJobLink rows, in id order
    k_link_id,      \* the id of the link inserted last
    k_last,         \* the last call of _auto_link_candidate_to_jds
    k_bulk,         \* bulk link requests made so far (bounds the run)
    \* ---- activity log (gmail_activity_log.py)
    log_entries,    \* GmailActivityLog._entries, oldest first
    log_adds,       \* add calls made so far; an entry's number is its timestamp
    log_listed,     \* the list call made since the last add, and what it returned
    th,             \* per thread: where its add or list call is, and its locals
    log_lock,       \* GmailActivityLog._lock: the thread holding it, or "none"
    log_order,      \* every entry appended so far, in append order
    \* ---- Graph access token (graph_client.py)
    gc,             \* the clock, GraphClient._shared_token and the tokens issued
    gc_token,       \* per GraphClient instance: self._token
    gc_call,        \* per request call: where it is, and what it returned
    \* ---- JSON extraction (llm/ollama_service.py)
    response_text,  \* the completion the backend has produced so far
    json_result,    \* what invoke_with_json did with it
    \* ---- Outlook over IMAP (imap_ingestion_service.py)
    im_box,         \* the folder: its messages in sequence-number order
    im_next,        \* how many messages have been delivered so far
    im_rows,        \* the outlook_candidates rows written by the service
    im_pc,          \* ingest_unread: "idle" or "fetched"
    im_msgs,        \* ingest_unread: the messages _fetch_unread_messages returned
    im_skipped,     \* the attachments the last run skipped as already ingested
    im_runs,        \* how many runs have started
    \* ---- ranking (scoring_engine.py)
    r_last,         \* the last rank_candidates call: its argument and its result
    \* ---- the loop of a sync cycle (gmail_sync_service.py)
    s_loop,         \* the locals of sync() after ingest_unread, and its calls
    s_links,        \* the committed CandidateJobLink rows, in id order
    s_texts,        \* resume_text of the committed candidates, by candidate id
    s_result        \* how the cycle started last ended, what failed at the
                    \* mailbox, and the result returned

syncVars == <<sync_lock, sync_waiters, pc, todo, cycles, sched>>
dedupVars == <<candidates, last_sub>>
gmailVars == <<unread, g_pc, g_msgs, g_att, g_successful, g_result, g_cycles,
               g_before, g_now, last_att, g_seen>>
outlookVars == <<o_unread, o_rows, o_pc, o_msgs, o_atts, o_successful, o_result,
                 o_runs>>
analyzeVars == <<db_runs, db_analyses, db_writer, a_pc, a_call, a_session_ok,
                 a_hist, clock>>
scoreVars == <<sc_env, sc_load, sc_prev, sc_last>>
questionVars == <<q_pc, q_ctx, q_todo, q_raw, q_data, q_questions, q_fb, q_iters>>

linkVars == <<k_jobs, k_cands, k_next, k_links, k_link_id, k_last, k_bulk>>
logVars == <<log_entries, log_adds, log_listed>>
cycleVars == <<s_loop, s_links, s_texts, s_result>>
threadVars == <<th, log_lock, log_order>>
graphVars == <<gc, gc_token, gc_call>>
parseVars == <<response_text, json_result>>
imapVars == <<im_box, im_next, im_rows, im_pc, im_msgs, im_skipped, im_runs>>

vars == <<syncVars, dedupVars, gmailVars, outlookVars, analyzeVars, scoreVars,
          questionVars, linkVars, logVars, r_last, cycleVars, threadVars,
          graphVars, parseVars, imapVars>>

\* What an action of one part leaves alone.
notSched == <<dedupVars, gmailVars, outlookVars, analyzeVars, scoreVars,
    questionVars, linkVars, log_listed, r_last, parseVars, imapVars, threadVars, graphVars, cycleVars>>
notSync == <<notSched, log_entries, log_adds>>
notDedup == <<syncVars, gmailVars, outlookVars, analyzeVars, scoreVars,
    questionVars, linkVars, logVars, r_last, parseVars, imapVars, threadVars, graphVars, cycleVars>>
notCycle == <<sync_waiters, pc, todo, cycles, sched, last_sub, outlookVars, analyzeVars, scoreVars,
    questionVars, linkVars, log_listed, r_last, parseVars, imapVars, threadVars, graphVars>>
notGmail == <<notCycle, sync_lock, log_entries, log_adds, cycleVars>>
notOutlook == <<syncVars, dedupVars, gmailVars, analyzeVars, scoreVars,
    questionVars, linkVars, logVars, r_last, parseVars, imapVars, threadVars, graphVars, cycleVars>>
notAnalyze == <<syncVars, dedupVars, gmailVars, outlookVars, scoreVars,
    questionVars, linkVars, logVars, r_last, parseVars, imapVars, threadVars, graphVars, cycleVars>>
notScore == <<syncVars, dedupVars, gmailVars, outlookVars, analyzeVars,
    questionVars, linkVars, logVars, r_last, parseVars, imapVars, threadVars, graphVars, cycleVars>>
notQuestions == <<syncVars, dedupVars, gmailVars, outlookVars, analyzeVars,
    scoreVars, linkVars, logVars, r_last, parseVars, imapVars, threadVars, graphVars, cycleVars>>
notLink == <<syncVars, dedupVars, gmailVars, outlookVars, analyzeVars,
    scoreVars, questionVars, logVars, r_last, parseVars, imapVars, threadVars, graphVars, cycleVars>>
notThreads == <<syncVars, dedupVars, gmailVars, outlookVars, analyzeVars,
    scoreVars, questionVars, linkVars, r_last, parseVars, imapVars, graphVars, cycleVars>>
notLog == <<syncVars, dedupVars, gmailVars, outlookVars, analyzeVars,
    scoreVars, questionVars, linkVars, r_last, parseVars, imapVars, threadVars, graphVars, cycleVars>>

notGraph == <<syncVars, dedupVars, gmailVars, outlookVars, analyzeVars,
    scoreVars, questionVars, linkVars, logVars, r_last, parseVars, imapVars, cycleVars, threadVars>>
notParse == <<syncVars, dedupVars, gmailVars, outlookVars, analyzeVars,
    scoreVars, questionVars, linkVars, logVars, r_last, cycleVars, threadVars,
    graphVars, imapVars>>
notImap == <<syncVars, dedupVars, gmailVars, outlookVars, analyzeVars,
    scoreVars, questionVars, linkVars, logVars, r_last, cycleVars, threadVars,
    graphVars, parseVars>>

---------------------------------------------------------------------------
(* Bounds *)
MaxCycles == 4
MaxImported == 2
MaxCandidates == 2
MaxGmailCycles == 2
MaxOutlookRuns == 3
MaxAnalyses == 2
MaxJobs == 4
MaxLinkCandidates == 1
MaxBulkLinks == 1
MaxAdds == 602
MaxRanked == 4
ConcurrentFrom == 600
MaxTime == 2
MaxResponse == 4
MaxMail == 3
MaxImapRuns == 3

---------------------------------------------------------------------------
(* Strings.  A string is a sequence of one-character strings; an optional    *)
(* string (str | None) is a record with a flag.                              *)

None == [some |-> FALSE, val |-> <<>>]
Some(s) == [some |-> TRUE, val |-> s]

\* Python truthiness of an optional string: None and "" are false.
Truthy(o) == o.some /\ o.val # <<>>

\* lower() as SQLite and ilike apply it.
Lower(c) ==
    CASE c = "A" -> "a" [] c = "B" -> "b" [] c = "C" -> "c" [] c = "D" -> "d"
      [] c = "J" -> "j" [] c = "X" -> "x"
      [] OTHER -> c

IsLetter(c) == c \in {"a", "b", "c", "d", "j", "x", "A", "B", "C", "D", "J", "X"}

LowerStr(s) == [i \in 1..Len(s) |-> Lower(s[i])]

\* Equality of two strings up to letter case.
EqNoCase(a, b) == LowerStr(a) = LowerStr(b)

EqNoCaseOpt(a, b) == a.some = b.some /\ EqNoCase(a.val, b.val)

\* value LIKE pattern: % matches any run of characters, _ any one character,
\* every other character itself, all compared in lower case (ILIKE).
RECURSIVE Ilike(_, _)
Ilike(value, pattern) ==
    IF pattern = <<>> THEN value = <<>>
    ELSE IF Head(pattern) = "%"
        THEN \E k \in 0..Len(value) :
                Ilike(SubSeq(value, k + 1, Len(value)), Tail(pattern))
    ELSE /\ value # <<>>
         /\ \/ Head(pattern) = "_"
            \/ Lower(Head(pattern)) = Lower(Head(value))
         /\ Ilike(Tail(value), Tail(pattern))

\* str.strip() for spaces.
RECURSIVE StripLeft(_)
StripLeft(s) == IF s # <<>> /\ Head(s) = " " THEN StripLeft(Tail(s)) ELSE s

RECURSIVE StripRight(_)
StripRight(s) ==
    IF s # <<>> /\ s[Len(s)] = " " THEN StripRight(SubSeq(s, 1, Len(s) - 1)) ELSE s

Strip(s) == StripRight(StripLeft(s))

\* str.split(): the maximal runs of non-space characters.
RECURSIVE SplitFrom(_, _, _)
SplitFrom(s, word, acc) ==
    IF s = <<>> THEN (IF word = <<>> THEN acc ELSE Append(acc, word))
    ELSE IF Head(s) = " "
        THEN SplitFrom(Tail(s), <<>>, IF word = <<>> THEN acc ELSE Append(acc, word))
    ELSE SplitFrom(Tail(s), Append(word, Head(s)), acc)

Split(s) == SplitFrom(s, <<>>, <<>>)

RECURSIVE JoinWords(_)
JoinWords(ws) ==
    IF ws = <<>> THEN <<>>
    ELSE IF Len(ws) = 1 THEN ws[1]
    ELSE ws[1] \o <<" ">> \o JoinWords(Tail(ws))

---------------------------------------------------------------------------
(* Activity log: GmailActivityLog *)

\* GmailActivityLog._MAX_ENTRIES
MAX_ENTRIES == 600

\* The limits a caller passes to list (the endpoint admits 1..600).
ListLimits == {-5, 0, 1, 3, 200, 600, 601}

NotListed == [called |-> FALSE, limit |-> 0, items |-> <<>>]

\* str.lower() of a level.
LevelLower(level) ==
    IF level = "ERROR" THEN "error"
    ELSE IF level = "WARNING" THEN "warning"
    ELSE IF level = "INFO" THEN "info"
    ELSE level

\* deque.append on a deque without maxlen.
DequeAppend_Unbounded(entries, entry) == Append(entries, entry)

\* deque(maxlen=_MAX_ENTRIES).append: a full deque drops its leftmost item.
DequeAppend(entries, entry) ==
    IF Len(entries) >= MAX_ENTRIES
       THEN Append(Tail(entries), entry)
       ELSE Append(entries, entry)

\* The entry GmailActivityLog.add builds; the number of the add stands for
\* the timestamp.
LogEntry(level, action, details) ==
    [timestamp |-> log_adds + 1, level |-> LevelLower(level),
     action |-> action, details |-> details]

\* GmailActivityLog.list(limit): items[-bounded:] of the entries, reversed.
LogListItems(entries, limit) ==
    LET capped == IF limit < MAX_ENTRIES THEN limit ELSE MAX_ENTRIES
        bounded == IF capped > 1 THEN capped ELSE 1
        first == IF Len(entries) > bounded THEN Len(entries) - bounded + 1 ELSE 1
        items == SubSeq(entries, first, Len(entries))
    IN  [i \in 1..Len(items) |-> items[Len(items) - i + 1]]

\* GmailActivityLog.add(level, action, message, details); the callers pass
\* the level in either case.
LogAdd ==
    /\ log_adds < MaxAdds
    /\ log_entries' = DequeAppend(log_entries,
                          LogEntry(IF log_adds % 2 = 0 THEN "info" ELSE "ERROR",
                                   "event", log_adds + 1))
    /\ log_adds' = log_adds + 1
    /\ log_listed' = NotListed
    /\ UNCHANGED notLog

\* GET /gmail/logs, or any caller of GmailActivityLog.list(limit)
LogList(limit) ==
    /\ log_listed' = [called |-> TRUE, limit |-> limit,
                      items |-> LogListItems(log_entries, limit)]
    /\ UNCHANGED <<log_entries, log_adds, notLog>>

NextLog ==
    \/ LogAdd
    \/ \E limit \in ListLimits : LogList(limit)

\* C24: after any sequence of add calls the log holds min(number of adds, 600)
\* entries, exactly the most recent ones in append order; list(limit) returns
\* the most recent max(1, min(limit, 600)) of them, or all if fewer exist,
\* newest first, and leaves the log unchanged.
C24_BoundedMostRecent ==
    /\ [](LET held == IF log_adds < 600 THEN log_adds ELSE 600
          IN  /\ Len(log_entries) = held
              /\ \A i \in 1..Len(log_entries) :
                     log_entries[i].timestamp = log_adds - held + i
              /\ log_listed.called =>
                    LET want == IF log_listed.limit > 600 THEN 600
                                ELSE IF log_listed.limit < 1 THEN 1
                                ELSE log_listed.limit
                        n == IF held < want THEN held ELSE want
                    IN  /\ Len(log_listed.items) = n
                        /\ \A i \in 1..n :
                               log_listed.items[i].timestamp = log_adds - i + 1)
    /\ [][log_adds' = log_adds => log_entries' = log_entries]_vars

\* A full log has evicted its oldest entries, and a list call with a limit
\* above the capacity has returned all 600 entries held.
C24_Witness ==
    /\ log_adds > 600
    /\ log_listed.called /\ log_listed.limit = 601
    /\ Len(log_listed.items) = 600

---------------------------------------------------------------------------
(* Activity log: concurrent callers *)

\* The threads that call add and list: the event loop's thread and worker
\* threads.  The first one works alone until ConcurrentFrom adds are made.
Threads == {"t1", "t2", "t3"}

\* The limits the threads pass to list.
ThreadLimits == {3, 601}

IdleThread ==
    [pc |-> "idle", op |-> "none", entry |-> <<>>, limit |-> 0, from |-> 0,
     state |-> 0, items |-> <<>>, raised |-> FALSE]

\* A lock that is granted whatever its state.
LockGranted_Always == TRUE

\* threading.Lock: `with cls._lock` is entered only while no thread holds it.
LockGranted == log_lock = "none"

\* add, before the lock: the entry is built.
AddBuild(t) ==
    /\ th[t].pc = "idle"
    /\ log_adds < MaxAdds
    /\ t = "t1" \/ log_adds >= ConcurrentFrom
    /\ th' = [th EXCEPT ![t] =
                 [IdleThread EXCEPT
                     !.pc = "add", !.op = "add",
                     !.entry = <<LogEntry(IF log_adds % 2 = 0 THEN "info" ELSE "ERROR",
                                          "event", log_adds + 1)>>]]
    /\ log_adds' = log_adds + 1
    /\ UNCHANGED <<log_entries, log_listed, log_lock, log_order, notThreads>>

\* add: `with cls._lock` is entered.
AddAcquire(t) ==
    /\ th[t].pc = "add"
    /\ LockGranted
    /\ log_lock' = t
    /\ th' = [th EXCEPT ![t].pc = "append"]
    /\ UNCHANGED <<log_entries, log_adds, log_listed, log_order, notThreads>>

\* add: the append, and the lock is released.
AddAppend(t) ==
    /\ th[t].pc = "append"
    /\ log_entries' = DequeAppend(log_entries, th[t].entry[1])
    /\ log_order' = Append(log_order, th[t].entry[1])
    /\ log_lock' = IF log_lock = t THEN "none" ELSE log_lock
    /\ th' = [th EXCEPT ![t] = [IdleThread EXCEPT !.op = "add"]]
    /\ UNCHANGED <<log_adds, log_listed, notThreads>>

\* list(limit) is called.
ListCall(t, limit) ==
    /\ th[t].pc = "idle"
    /\ t = "t1" \/ log_adds >= ConcurrentFrom
    /\ th' = [th EXCEPT ![t] =
                 [IdleThread EXCEPT !.pc = "list", !.op = "list", !.limit = limit,
                                    !.from = Len(log_order)]]
    /\ UNCHANGED <<log_entries, log_adds, log_listed, log_lock, log_order, notThreads>>

\* list: `with cls._lock` is entered and list(cls._entries) starts to iterate
\* the deque, whose iterator remembers the deque's state.
ListAcquire(t) ==
    /\ th[t].pc = "list"
    /\ LockGranted
    /\ log_lock' = t
    /\ th' = [th EXCEPT ![t].pc = "copy", ![t].state = Len(log_order)]
    /\ UNCHANGED <<log_entries, log_adds, log_listed, log_order, notThreads>>

\* list: the iteration ends (RuntimeError if the deque was mutated during
\* it), the copy is sliced, the lock is released, and the reversed items are
\* returned.
ListCopy(t) ==
    /\ th[t].pc = "copy"
    /\ th' = [th EXCEPT
                 ![t].pc = "idle",
                 ![t].raised = (Len(log_order) # th[t].state),
                 ![t].items = IF Len(log_order) # th[t].state THEN <<>>
                              ELSE LogListItems(log_entries, th[t].limit)]
    /\ log_lock' = IF log_lock = t THEN "none" ELSE log_lock
    /\ UNCHANGED <<log_entries, log_adds, log_listed, log_order, notThreads>>

NextLogThreads ==
    \/ \E t \in Threads : AddBuild(t)
    \/ \E t \in Threads : AddAcquire(t)
    \/ \E t \in Threads : AddAppend(t)
    \/ \E t \in Threads, limit \in ThreadLimits : ListCall(t, limit)
    \/ \E t \in Threads : ListAcquire(t)
    \/ \E t \in Threads : ListCopy(t)

\* The newest n of the first k entries appended, newest first.
NewestAt(k, n) ==
    LET m == IF n < k THEN n ELSE k
    IN  [i \in 1..m |-> log_order[k - i + 1]]

\* C35: the activity log is safe under concurrent use: in every interleaving
\* of add and list calls of several threads no added entry is lost or
\* duplicated (the log is the tail of the append order, which holds every
\* entry of a finished add once), the log never holds more than 600 entries,
\* and every list call returns the newest entries of the append order as it
\* was at one instant between its call and its return.
C35_ThreadSafeLog ==
    LET held == IF Len(log_order) < 600 THEN Len(log_order) ELSE 600
        pending == {th[t].entry[1].timestamp :
                       t \in {u \in Threads : th[u].pc \in {"add", "append"}}}
    IN  /\ Len(log_entries) <= 600
        /\ log_entries = SubSeq(log_order, Len(log_order) - held + 1, Len(log_order))
        /\ {log_order[i].timestamp : i \in 1..Len(log_order)} = (1..log_adds) \ pending
        /\ Len(log_order) = log_adds - Cardinality(pending)
        /\ \A t \in Threads :
               (th[t].op = "list" /\ th[t].pc = "idle") =>
                   /\ ~th[t].raised
                   /\ \E k \in th[t].from..Len(log_order) :
                          th[t].items =
                              NewestAt(k, IF th[t].limit > 600 THEN 600
                                          ELSE IF th[t].limit < 1 THEN 1
                                          ELSE th[t].limit)

\* A list call that ran while two other threads were adding to the full log
\* has returned 600 entries, and entries were appended since it was called.
C35_Witness ==
    /\ Len(log_order) > 600
    /\ \E t \in Threads :
          /\ th[t].op = "list" /\ th[t].pc = "idle"
          /\ Len(th[t].items) = 600
          /\ th[t].from < Len(log_order)
          /\ \A u \in Threads \ {t} : th[u].op = "add"
---------------------------------------------------------------------------
(* Sync orchestrator *)

Scheduler == "scheduler"
ManualTasks == {"manual1", "manual2"}
Tasks == {Scheduler} \cup ManualTasks

\* The positions of a task inside the cycle, i.e. inside `async with _sync_lock`.
CycleStates == {"ingest", "analyze"}

RemoveWaiter(q, t) == SelectSeq(q, LAMBDA x : x # t)

\* A lock that is granted without looking at its state.
LockFree_NoCheck == TRUE

\* asyncio.Lock.acquire grants the lock at once only if it is free and nobody waits.
LockFree == ~sync_lock /\ sync_waiters = <<>>


\* sync(): `async with self._sync_lock`, then the 'sync_started' entry and the
\* call of ingest_unread, with no await in between.
SyncAcquire(t) ==
    /\ pc[t] = "call"
    /\ IF LockFree
          THEN /\ sync_lock' = TRUE
               /\ pc' = [pc EXCEPT ![t] = "ingest"]
               /\ UNCHANGED sync_waiters
          ELSE /\ sync_waiters' = Append(sync_waiters, t)
               /\ pc' = [pc EXCEPT ![t] = "wait"]
               /\ UNCHANGED sync_lock
    /\ UNCHANGED <<todo, cycles, sched, notSync>>

\* A queued task is woken by release() and takes the lock when it runs.
SyncWake(t) ==
    /\ pc[t] = "wait"
    /\ ~sync_lock
    /\ sync_waiters # <<>> /\ Head(sync_waiters) = t
    /\ sync_lock' = TRUE
    /\ sync_waiters' = Tail(sync_waiters)
    /\ pc' = [pc EXCEPT ![t] = "ingest"]
    /\ UNCHANGED <<todo, cycles, sched, notSync>>

\* An error handler of the loop that catches the cancellation as well.
LoopHandler_Swallow(exc) == "sleep"

\* An error handler of the loop that lets every exception through.
LoopHandler_Reraise(exc) == "stopped"

\* The try/except around the scheduled sync: CancelledError is re-raised and
\* ends the task, any other Exception is logged and the loop goes on to its
\* sleep.
LoopHandler(exc) == IF exc = "CancelledError" THEN "cancelled" ELSE "sleep"

\* Where a task goes when its sync call has returned.
AfterSync(t) == IF t = Scheduler THEN "sleep" ELSE "idle"

\* sync() raises to its trigger: the `async with` releases the lock; the
\* request of a manual trigger fails, the scheduler loop handles the
\* exception and adds its 'scheduler_error' entry.
SyncRaised(t) ==
    /\ sync_lock' = FALSE
    /\ pc' = [pc EXCEPT ![t] = IF t = Scheduler THEN LoopHandler("Exception")
                                                ELSE "idle"]
    /\ IF t = Scheduler /\ LoopHandler("Exception") = "sleep"
          THEN /\ log_entries' = DequeAppend(log_entries,
                                     LogEntry("error", "scheduler_error", <<>>))
               /\ log_adds' = log_adds + 1
               /\ sched' = [sched EXCEPT !.failed = @ + 1]
          ELSE /\ sched' = IF t = Scheduler THEN [sched EXCEPT !.failed = @ + 1]
                                             ELSE sched
               /\ UNCHANGED <<log_entries, log_adds>>
    /\ UNCHANGED <<sync_waiters, todo, cycles, notSched>>

\* ingest_unread returns n imported candidates.
IngestReturn(t, n) ==
    /\ pc[t] = "ingest"
    /\ pc' = [pc EXCEPT ![t] = "analyze"]
    /\ todo' = [todo EXCEPT ![t] = n]
    /\ UNCHANGED <<sync_lock, sync_waiters, cycles, sched, notSync>>

\* ingest_unread raises: the exception leaves the `async with`, which releases.
IngestRaise(t) ==
    /\ pc[t] = "ingest"
    /\ SyncRaised(t)

\* One pass of the loop over imported_candidates (link lookup, then analysis or
\* the no-match entry); analysis errors are caught inside the loop.
AnalyzeNext(t) ==
    /\ pc[t] = "analyze"
    /\ todo[t] > 0
    /\ todo' = [todo EXCEPT ![t] = @ - 1]
    /\ UNCHANGED <<sync_lock, sync_waiters, pc, cycles, sched, notSync>>

\* The loop raises (the link lookup on a session that needs a rollback): the
\* exception leaves the `async with`, which releases.
AnalyzeRaise(t) ==
    /\ pc[t] = "analyze"
    /\ SyncRaised(t)

\* The 'sync_completed' entry and the return, which leaves the `async with`.
SyncComplete(t) ==
    /\ pc[t] = "analyze"
    /\ todo[t] = 0
    /\ sync_lock' = FALSE
    /\ pc' = [pc EXCEPT ![t] = AfterSync(t)]
    /\ UNCHANGED <<sync_waiters, todo, cycles, sched, notSync>>

\* POST /gmail/ingest: a request that passes _validate_gmail_settings calls sync.
ManualRequest(t) ==
    /\ t \in ManualTasks
    /\ pc[t] = "idle"
    /\ cycles < MaxCycles
    /\ cycles' = cycles + 1
    /\ pc' = [pc EXCEPT ![t] = "call"]
    /\ UNCHANGED <<sync_lock, sync_waiters, todo, sched, notSync>>

\* gmail_sync_interval_minutes as configured.
IntervalSettings == {-5, 0, 1, 30}

\* _gmail_scheduler_loop starts: the interval is computed, the
\* 'scheduler_started' entry is added and the first sync is called at once.
SchedulerStart(minutes) ==
    /\ pc[Scheduler] = "created"
    /\ cycles < MaxCycles
    /\ cycles' = cycles + 1
    /\ sched' = [sched EXCEPT
                    !.interval_seconds = (IF minutes > 1 THEN minutes ELSE 1) * 60]
    /\ log_entries' = DequeAppend(log_entries,
                          LogEntry("info", "scheduler_started", <<>>))
    /\ log_adds' = log_adds + 1
    /\ pc' = [pc EXCEPT ![Scheduler] = "call"]
    /\ UNCHANGED <<sync_lock, sync_waiters, todo, notSched>>

\* _gmail_scheduler_loop: asyncio.sleep(interval_seconds) is over, the next
\* sync is called.
SchedulerTick ==
    /\ pc[Scheduler] = "sleep"
    /\ cycles < MaxCycles
    /\ cycles' = cycles + 1
    /\ pc' = [pc EXCEPT ![Scheduler] = "call"]
    /\ UNCHANGED <<sync_lock, sync_waiters, todo, sched, notSync>>

\* lifespan cancels the scheduler task: CancelledError is raised at the await
\* the task is suspended in (or the task never starts).  Inside sync() the
\* `async with` releases the lock, on the lock's queue the waiter is removed,
\* and the exception passes the try/except of the loop; the sleep is outside
\* the try.
SchedulerCancel ==
    /\ pc[Scheduler] \in {"created", "wait", "ingest", "analyze", "sleep"}
    /\ ~sched.cancel
    /\ sched' = [sched EXCEPT !.cancel = TRUE]
    /\ sync_lock' = IF pc[Scheduler] \in CycleStates THEN FALSE ELSE sync_lock
    /\ sync_waiters' = RemoveWaiter(sync_waiters, Scheduler)
    /\ pc' = [pc EXCEPT ![Scheduler] =
                 IF pc[Scheduler] \in {"created", "sleep"}
                    THEN "cancelled" ELSE LoopHandler("CancelledError")]
    /\ UNCHANGED <<todo, cycles, notSync>>

NextSync ==
    \/ \E t \in Tasks : SyncAcquire(t)
    \/ \E t \in Tasks : SyncWake(t)
    \/ \E t \in Tasks, n \in 0..MaxImported : IngestReturn(t, n)
    \/ \E t \in Tasks : IngestRaise(t)
    \/ \E t \in Tasks : AnalyzeNext(t)
    \/ \E t \in Tasks : AnalyzeRaise(t)
    \/ \E t \in Tasks : SyncComplete(t)
    \/ \E t \in ManualTasks : ManualRequest(t)
    \/ \E minutes \in IntervalSettings : SchedulerStart(minutes)
    \/ SchedulerTick
    \/ SchedulerCancel

\* Tasks inside the cycle.
InCycle == {t \in Tasks : pc[t] \in CycleStates}

\* C1: at most one sync cycle is in progress at any time, whatever the trigger,
\* and the lock is held for as long as a task is inside the cycle (ingestion,
\* per-candidate analysis, summary entry).
C1_OneSyncAtATime ==
    /\ Cardinality(InCycle) <= 1
    /\ (InCycle # {} => sync_lock)

\* A manual sync waits on the lock while the scheduler's cycle is analysing.
C1_Witness ==
    /\ pc[Scheduler] = "analyze"
    /\ \E t \in ManualTasks : pc[t] = "wait"
    /\ sync_lock


\* C33: cancelling the scheduler task ends the loop at once: a cancellation
\* delivered while a sync is running, while the task waits for the lock or
\* while the loop sleeps is not swallowed by the loop's error handler, the
\* task is over and starts no further sync, it is not left on the lock's
\* queue and the lock is not left held; and the loop never sleeps less than
\* one minute.
C33_CancelEndsLoop ==
    /\ sched.cancel =>
          /\ pc[Scheduler] = "cancelled"
          /\ \A i \in 1..Len(sync_waiters) : sync_waiters[i] # Scheduler
          /\ sync_lock => \E t \in ManualTasks : pc[t] \in CycleStates
    /\ pc[Scheduler] \notin {"created", "cancelled"} => sched.interval_seconds >= 60

\* The scheduler was cancelled inside the loop over imported candidates, and
\* a manual sync has taken the lock since.
C33_Witness ==
    /\ sched.cancel
    /\ todo[Scheduler] > 0
    /\ \E t \in ManualTasks : pc[t] = "ingest"

\* The 'scheduler_error' entries of the activity log.
SchedulerErrors == SelectSeq(log_entries, LAMBDA e : e.action = "scheduler_error")

\* C34: a scheduled sync that raises an error other than the cancellation
\* adds one 'scheduler_error' entry to the activity log and does not stop the
\* scheduler: the loop goes to its sleep, and after the sleep it calls the
\* next sync, unless the task is cancelled.
C34_ErrorKeepsScheduler ==
    /\ [](/\ Len(SchedulerErrors) = sched.failed
          /\ ~sched.cancel =>
                pc[Scheduler] \in {"created", "call", "wait", "ingest", "analyze", "sleep"}
          /\ (pc[Scheduler] = "sleep" /\ cycles < MaxCycles) => ENABLED SchedulerTick)
    /\ [][/\ sched'.failed # sched.failed =>
                /\ pc'[Scheduler] = "sleep"
                /\ Len(log_entries') = Len(log_entries) + 1
                /\ log_entries'[Len(log_entries')].action = "scheduler_error"
                /\ log_entries'[Len(log_entries')].level = "error"
          /\ (pc[Scheduler] = "sleep" /\ pc'[Scheduler] # "sleep") =>
                \/ pc'[Scheduler] = "call" /\ ~sched'.cancel
                \/ pc'[Scheduler] = "cancelled" /\ sched'.cancel]_vars

\* After a scheduled sync that raised, the next scheduled sync is running.
C34_Witness ==
    /\ sched.failed >= 1
    /\ ~sched.cancel
    /\ pc[Scheduler] = "ingest"
---------------------------------------------------------------------------
(* Candidate deduplication *)

\* The rows the query of _find_duplicate_candidate selects: the name matches
\* the pattern and, when an email is given, so does the (non-NULL) email.
DuplicateRows(rows, name, email) ==
    {i \in 1..Len(rows) :
        /\ Ilike(rows[i].name, name)
        /\ Truthy(email) =>
              (rows[i].email.some /\ Ilike(rows[i].email.val, email.val))}

\* _find_duplicate_candidate: "none", "found", or "raise" when
\* scalar_one_or_none meets more than one row (MultipleResultsFound).
FindDuplicate(rows, name, email) ==
    IF name = <<>> THEN "none"
    ELSE LET n == Cardinality(DuplicateRows(rows, name, email))
         IN  IF n = 0 THEN "none" ELSE IF n = 1 THEN "found" ELSE "raise"

\* _normalize_name: every character outside [A-Za-z\s.\-'] becomes a space,
\* runs of spaces collapse to one, the ends are stripped.
NormalizeName(value) ==
    JoinWords(Split([i \in 1..Len(value) |->
        IF IsLetter(value[i]) \/ value[i] \in {" ", ".", "-", "'"}
            THEN value[i] ELSE " "]))

MaxNameLen == 80

\* _is_valid_name: not empty, two to five words, at most 80 characters.  (Its
\* stop words, "cv", "resume", "profile", ..., cannot be spelled with the
\* letters of the model.)
IsValidName(value) ==
    /\ value # <<>>
    /\ Len(Split(value)) >= 2 /\ Len(Split(value)) <= 5
    /\ Len(value) <= MaxNameLen

\* The name given to a resume no other source names.
DefaultName == <<"C", "a", "n", "d", "i", "d", "a", "t", "e">>

\* The name create_candidate_from_resume_bytes resolves: the name argument, else
\* the name extracted from the text; if that is no valid name and there is text,
\* the name the LLM returns (None: it failed or returned none); then the file
\* name's stem; then "Candidate".
ResolveName(r, llm) ==
    LET r0 == IF r.nameArg.some /\ Strip(r.nameArg.val) # <<>>
                 THEN Strip(r.nameArg.val) ELSE r.extracted
        r1 == IF r.hasText /\ ~IsValidName(r0)
                 THEN (IF llm.some /\ IsValidName(NormalizeName(llm.val))
                          THEN NormalizeName(llm.val) ELSE <<>>)
                 ELSE r0
        r2 == IF ~IsValidName(r1) THEN NormalizeName(r.stem) ELSE r1
    IN  IF ~IsValidName(r2) THEN DefaultName ELSE r2

\* resolved_email = email or _extract_email(resume_text)
ResolveEmail(r) == IF Truthy(r.emailArg) THEN r.emailArg ELSE r.textEmail

\* Whether the submission repeats the one before it: same name and same email
\* up to letter case.
Repeats(name, email) ==
    /\ last_sub.api # "none"
    /\ EqNoCase(last_sub.name, name)
    /\ EqNoCaseOpt(last_sub.email, email)

\* What a submission of (name, email) does to the store: a duplicate (or a
\* failed lookup) leaves it alone, otherwise the row is added and committed.
Submit(api, name, email) ==
    LET dup == FindDuplicate(candidates, name, email)
    IN  [rows |-> IF dup = "none"
                     THEN Append(candidates, [name |-> name, email |-> email])
                     ELSE candidates,
         sub |-> [api |-> api, name |-> name, email |-> email,
                  outcome |-> CASE dup = "none" -> "created"
                                [] dup = "found" -> "duplicate"
                                [] OTHER -> "raised",
                  again |-> Repeats(name, email)]]

\* POST /candidates (create_candidate): name and email as given; a duplicate
\* is answered 409.
CreateCandidate(name, email) ==
    LET s == Submit("create_candidate", name, email)
    IN  /\ Len(s.rows) <= MaxCandidates
        /\ candidates' = s.rows
        /\ last_sub' = s.sub
        /\ UNCHANGED notDedup

\* create_candidate_from_resume_bytes for a resume that parses; a duplicate
\* returns None.
CreateFromResumeBytes(r, llm) ==
    LET s == Submit("create_candidate_from_resume_bytes",
                    ResolveName(r, llm), ResolveEmail(r))
    IN  /\ Len(s.rows) <= MaxCandidates
        /\ candidates' = s.rows
        /\ last_sub' = s.sub
        /\ UNCHANGED notDedup

\* Inputs.
JD == <<"j", " ", "d">>
ApiNames == {<<>>, JD, <<"J", " ", "D">>}
ApiEmails == {None, Some(<<"a", "x", "b">>), Some(<<"a", "_", "b">>)}
LlmNames == {None, Some(<<"a", " ", "b">>), Some(<<"c", "_", "d">>)}
Resume(nameArg, extracted, textEmail, stem) ==
    [nameArg |-> nameArg, emailArg |-> None, extracted |-> extracted,
     textEmail |-> textEmail, hasText |-> TRUE, stem |-> stem]
Resumes ==
    {Resume(Some(<<"J", " ", "D">>), <<>>, Some(<<"a", "x", "b">>), <<"x">>),
     Resume(None, JD, None, <<"x">>),
     Resume(None, <<>>, Some(<<"a", "x", "b">>), <<"x">>),
     Resume(None, <<>>, None, <<"j", "_", "d">>)}

NextDedup ==
    \/ \E n \in ApiNames, e \in ApiEmails : CreateCandidate(n, e)
    \/ \E r \in Resumes, llm \in LlmNames : CreateFromResumeBytes(r, llm)

\* The rows that carry a name and an email, up to letter case.
RowsOf(name, email) ==
    {i \in 1..Len(candidates) :
        /\ EqNoCase(candidates[i].name, name)
        /\ EqNoCaseOpt(candidates[i].email, email)}

\* C4: a candidate (one that has a name and an email) submitted twice with the
\* same name and the same email, up to letter case, leaves exactly one
\* Candidate row with that name and email, whatever was submitted before.
C4_TwiceOneRow ==
    (last_sub.again /\ last_sub.name # <<>> /\ Truthy(last_sub.email))
        => Cardinality(RowsOf(last_sub.name, last_sub.email)) = 1

---------------------------------------------------------------------------
(* Candidate-job links: _auto_link_candidate_to_jds, bulk_link_candidates_to_jd *)

\* The job descriptions the recruiter creates, in this order: title, domain
\* (empty when unset) and required skills.
Jobs ==
    LET skilled == [title |-> <<"j", "x">>, domain |-> <<"c", "d">>,
                    required_skills |-> << <<"a", "b">>, <<>> >>]
        backend == [title |-> <<"J", "X">>, domain |-> <<"d", "d">>,
                    required_skills |-> << <<"A", "B">>, <<"c", "d">>, <<"x", "x">> >>]
        bare == [title |-> <<>>, domain |-> <<>>, required_skills |-> << <<"d">> >>]
    IN  <<skilled, backend, backend, skilled, bare, backend>>

\* The resume texts of new candidates.
LinkResumes ==
    {<<"a", "b", " ", "c", "d", " ", "J", "x">>,
     <<"A", "B", " ", "c", "d", " ", "j", "x", " ", "d", "d">>,
     <<>>}

\* needle.lower() in text.lower()
Occurs(needle, text) ==
    \E i \in 0..(Len(text) - Len(needle)) :
        \A n \in 1..Len(needle) : Lower(text[i + n]) = Lower(needle[n])

\* The match score that counts a matched skill once.
MatchScore_SkillsOnce(jd, resume_text) ==
    LET hits == {i \in 1..Len(jd.required_skills) :
                    jd.required_skills[i] # <<>>
                    /\ Occurs(jd.required_skills[i], resume_text)}
    IN  Cardinality(hits)
          + (IF jd.title # <<>> /\ Occurs(jd.title, resume_text) THEN 1 ELSE 0)
          + (IF jd.domain # <<>> /\ Occurs(jd.domain, resume_text) THEN 1 ELSE 0)

\* score of one job in the loop of _auto_link_candidate_to_jds.
MatchScore(jd, resume_text) ==
    LET skill_matches ==
            Cardinality({i \in 1..Len(jd.required_skills) :
                            jd.required_skills[i] # <<>>
                            /\ Occurs(jd.required_skills[i], resume_text)})
        title_hit == IF jd.title # <<>> /\ Occurs(jd.title, resume_text) THEN 1 ELSE 0
        domain_hit == IF jd.domain # <<>> /\ Occurs(jd.domain, resume_text) THEN 1 ELSE 0
    IN  skill_matches * 2 + title_hit + domain_hit

\* scored.sort(key=score, reverse=True): stable, so jobs of equal score keep
\* the order of the query.  `scored` holds [id, score] with score <= top.
RECURSIVE SortedFrom(_, _)
SortedFrom(top, scored) ==
    IF top <= 0 THEN <<>>
    ELSE SelectSeq(scored, LAMBDA item : item.score = top)
            \o SortedFrom(top - 1, scored)

\* Auto-link that takes the first max_links jobs of the query, unsorted.
AutoLink_Unsorted(jobs, resume_text) ==
    LET all == [i \in 1..Len(jobs) |-> [id |-> i, score |-> MatchScore(jobs[i], resume_text)]]
        scored == SelectSeq(all, LAMBDA item : item.score > 0)
    IN  [i \in 1..(IF Len(scored) < 3 THEN Len(scored) ELSE 3) |->
            [job_description_id |-> scored[i].id,
             confidence |-> scored[i].score, linked_by |-> "ai"]]

\* _auto_link_candidate_to_jds with max_links = 3: the links it adds, in order.
AutoLink(jobs, resume_text) ==
    LET all == [i \in 1..Len(jobs) |-> [id |-> i, score |-> MatchScore(jobs[i], resume_text)]]
        scored == SortedFrom(2 * 3 + 2, SelectSeq(all, LAMBDA item : item.score > 0))
        selected ==
            IF scored = <<>> THEN <<>>
            ELSE LET within == SelectSeq(scored,
                                  LAMBDA item : item.score >= scored[1].score - 1)
                 IN  SubSeq(within, 1, IF Len(within) < 3 THEN Len(within) ELSE 3)
    IN  [i \in 1..Len(selected) |->
            [job_description_id |-> selected[i].id,
             confidence |-> selected[i].score, linked_by |-> "ai"]]

\* The table has no unique constraint.
UniqueViolation_None(rows) == FALSE

\* uq_candidate_job_link: the INSERTs of a commit fail with IntegrityError when
\* the table would hold two rows of one (candidate, job) pair.
UniqueViolation(rows) ==
    \E i, j \in 1..Len(rows) :
        /\ i < j
        /\ rows[i].candidate_id = rows[j].candidate_id
        /\ rows[i].job_description_id = rows[j].job_description_id

\* The rows a commit inserts for the links of one candidate, ids from k_link_id.
LinkRows(candidate_id, links) ==
    [i \in 1..Len(links) |->
        [id |-> k_link_id + i, candidate_id |-> candidate_id,
         job_description_id |-> links[i].job_description_id,
         confidence |-> links[i].confidence, linked_by |-> links[i].linked_by]]

\* The next job description is created.
CreateJob ==
    /\ Len(k_jobs) < MaxJobs
    /\ Len(k_jobs) < Len(Jobs)
    /\ k_jobs' = Append(k_jobs, Jobs[Len(k_jobs) + 1])
    /\ UNCHANGED <<k_cands, k_next, k_links, k_link_id, k_last, k_bulk, notLink>>

\* create_candidate_from_resume_bytes for a new candidate: a manual link when
\* a job is given (job = 0: none), the auto-linked jobs otherwise; commit.  An
\* IntegrityError of the commit leaves the tables as they were.
CreateLinked(resume_text, job) ==
    /\ k_next <= MaxLinkCandidates
    /\ job <= Len(k_jobs)
    /\ LET auto == AutoLink(k_jobs, resume_text)
           links == IF job # 0
                       THEN <<[job_description_id |-> job, confidence |-> 1,
                               linked_by |-> "manual"]>>
                       ELSE auto
           rows == k_links \o LinkRows(k_next, links)
       IN  IF UniqueViolation(rows)
              THEN UNCHANGED <<k_links, k_link_id, k_last, k_cands, k_next>>
              ELSE /\ k_links' = rows
                   /\ k_link_id' = k_link_id + Len(links)
                   /\ k_last' = IF job # 0 THEN k_last
                                ELSE [called |-> TRUE, resume_text |-> resume_text,
                                      jobs |-> k_jobs,
                                      scores |-> [i \in 1..Len(k_jobs) |->
                                                     MatchScore(k_jobs[i], resume_text)],
                                      links |-> auto]
                   /\ k_cands' = k_cands \cup {k_next}
                   /\ k_next' = k_next + 1
    /\ UNCHANGED <<k_jobs, k_bulk, notLink>>

\* POST /candidates/link-jd: one link per candidate id, one commit; an
\* IntegrityError leaves the table as it was.
BulkLink(candidate_ids, job) ==
    /\ job \in 1..Len(k_jobs)
    /\ k_bulk < MaxBulkLinks
    /\ k_bulk' = k_bulk + 1
    /\ LET links == [i \in 1..Len(candidate_ids) |->
                        [id |-> k_link_id + i, candidate_id |-> candidate_ids[i],
                         job_description_id |-> job, confidence |-> 1,
                         linked_by |-> "manual"]]
       IN  IF UniqueViolation(k_links \o links)
              THEN UNCHANGED <<k_links, k_link_id>>
              ELSE /\ k_links' = k_links \o links
                   /\ k_link_id' = k_link_id + Len(links)
    /\ UNCHANGED <<k_jobs, k_cands, k_next, k_last, notLink>>

\* DELETE /candidates/{id}: the candidate goes, and its links with it
\* (cascade of Candidate.job_links).
DeleteCandidate(candidate_id) ==
    /\ candidate_id \in k_cands
    /\ k_cands' = k_cands \ {candidate_id}
    /\ k_links' = SelectSeq(k_links, LAMBDA row : row.candidate_id # candidate_id)
    /\ UNCHANGED <<k_jobs, k_next, k_link_id, k_last, k_bulk, notLink>>

NextLink ==
    \/ CreateJob
    \/ \E resume_text \in LinkResumes, job \in 0..MaxJobs :
          CreateLinked(resume_text, job)
    \/ \E ids \in {<<1>>, <<2>>, <<1, 2>>, <<1, 1>>}, job \in 1..MaxJobs :
          BulkLink(ids, job)
    \/ \E candidate_id \in 1..MaxLinkCandidates : DeleteCandidate(candidate_id)

\* C17: the match score of a resume against a job is 2 x (number of the job's
\* required skills, empty entries aside, that occur case-insensitively as
\* substrings of the resume text) + 1 if the job title occurs in it + 1 if the
\* job domain occurs in it.
C17_MatchScoreFormula ==
    k_last.called =>
        \A i \in 1..Len(k_last.jobs) :
            LET jd == k_last.jobs[i]
                text == k_last.resume_text
                In(s) == /\ s # <<>>
                         /\ \E a \in 1..Len(text) :
                               \A n \in 1..Len(s) :
                                   /\ a + n - 1 <= Len(text)
                                   /\ Lower(text[a + n - 1]) = Lower(s[n])
                skills == Cardinality({n \in 1..Len(jd.required_skills) :
                                          In(jd.required_skills[n])})
            IN  k_last.scores[i] = 2 * skills + (IF In(jd.title) THEN 1 ELSE 0)
                                       + (IF In(jd.domain) THEN 1 ELSE 0)

\* 2 of 3 required skills and the title are in the resume: the score is 5.
C17_Witness ==
    /\ k_last.called
    /\ \E i \in 1..Len(k_last.jobs) :
          /\ Len(k_last.jobs[i].required_skills) = 3
          /\ k_last.scores[i] = 5

\* C18: auto-link creates links exactly for the jobs whose score is > 0 and
\* within 1 point of the top score, in descending score order and capped at
\* 3; each link has provenance "ai" and confidence equal to the job's score.
C18_AutoLinkSelection ==
    k_last.called =>
        LET scores == k_last.scores
            links == k_last.links
            top == IF scores = <<>> THEN 0
                   ELSE CHOOSE s \in {scores[i] : i \in 1..Len(scores)} :
                            \A i \in 1..Len(scores) : scores[i] <= s
            eligible == {i \in 1..Len(scores) : scores[i] > 0 /\ scores[i] >= top - 1}
            linked == {links[n].job_description_id : n \in 1..Len(links)}
        IN  /\ linked \subseteq eligible
            /\ Cardinality(linked) = Len(links)
            /\ Len(links) = IF Cardinality(eligible) < 3 THEN Cardinality(eligible) ELSE 3
            /\ \A n \in 1..Len(links) :
                  /\ links[n].linked_by = "ai"
                  /\ links[n].confidence = scores[links[n].job_description_id]
                  /\ links[n].confidence > 0
                  /\ n > 1 => links[n - 1].confidence >= links[n].confidence
            /\ \A i \in eligible \ linked : \A n \in 1..Len(links) :
                  scores[i] <= links[n].confidence

\* Four jobs were eligible with different scores, three were linked.
C18_Witness ==
    /\ k_last.called
    /\ Len(k_last.links) = 3
    /\ Cardinality({i \in 1..Len(k_last.scores) : k_last.scores[i] >= 4}) = 4
    /\ k_last.links[1].confidence = 5 /\ k_last.links[3].confidence = 4
    /\ k_last.scores[1] = 4

---------------------------------------------------------------------------
(* Gmail ingestion cycle *)

\* The mailbox: three messages from the configured sender, with their
\* attachments in MIME order (the third has none).  An attachment has an allowed extension or not,
\* parses to resume text or not, and carries the resume the parser reads.
Attachment(allowed, parses, extracted, textEmail) ==
    [allowed |-> allowed, parses |-> parses,
     resume |-> Resume(None, extracted, textEmail, <<"x">>)]

GmailMessages == {1, 2, 3}

GmailAttachments(m) ==
    IF m = 3 THEN <<>>
    ELSE IF m = 1
       THEN <<Attachment(TRUE, TRUE, <<>>, Some(<<"a", "x", "b">>)),
              Attachment(FALSE, TRUE, <<>>, None)>>
       ELSE <<Attachment(TRUE, TRUE, JD, Some(<<"c", "x", "d">>)),
              Attachment(TRUE, FALSE, <<>>, None),
              Attachment(TRUE, TRUE, JD, Some(<<"a", "x", "b">>)),
              Attachment(TRUE, TRUE, JD, None)>>

\* resume_text of the attachments, as far as the job requirements go: the
\* third resume of message 2 names no skill, title or domain of any job.
GmailResumeText(m, i) ==
    IF m = 2 /\ i = 3 THEN <<"n", "o">>
    ELSE IF m = 2 THEN <<"A", "B", " ", "c", "d", " ", "j", "x", " ", "d", "d">>
    ELSE <<"a", "b", " ", "c", "d", " ", "J", "x">>

\* The locals of sync(): `first` is the number of the cycle's 'sync_started'
\* entry, `i` the position in imported_candidates (0 until ingest_unread has
\* returned), `session_ok` is FALSE once the shared session needs a rollback,
\* `calls` are the analyze_candidate calls made.
NoLoop ==
    [first |-> 0, i |-> 0, analyzed_candidates |-> 0, no_jd_match_candidates |-> 0,
     analysis_errors |-> 0, errors |-> <<>>, session_ok |-> TRUE, calls |-> <<>>]

\* The counts of the summary entry and of GmailSyncResult.
SyncCounts ==
    [created_candidates |-> g_result.created_candidates,
     analyzed_candidates |-> s_loop.analyzed_candidates,
     no_jd_match_candidates |-> s_loop.no_jd_match_candidates,
     processed_messages |-> g_result.processed_messages,
     processed_attachments |-> g_result.processed_attachments,
     skipped_candidates |-> g_result.skipped_candidates,
     analysis_errors |-> s_loop.analysis_errors]

NoSyncResult ==
    [status |-> "none", mailbox |-> "none", counts |-> [analysis_errors |-> 0],
     errors |-> <<>>, imported_candidates |-> <<>>]

\* details of a log entry about a candidate.
CandidateDetails(candidate_id, job_description_id) ==
    [candidate_id |-> candidate_id, job_description_id |-> job_description_id]

\* select(CandidateJobLink).where(candidate_id == ...)
\* .order_by(confidence.desc(), id.asc()), then .first(): <<>> is None.
BestLink(rows, candidate_id) ==
    LET mine == SelectSeq(rows, LAMBDA row : row.candidate_id = candidate_id)
    IN  IF mine = <<>> THEN <<>>
        ELSE <<mine[CHOOSE i \in 1..Len(mine) :
                      \A j \in 1..Len(mine) :
                          \/ mine[i].confidence > mine[j].confidence
                          \/ /\ mine[i].confidence = mine[j].confidence
                             /\ mine[i].id <= mine[j].id]>>

\* The unread messages in the order the IMAP search lists them.
RECURSIVE Ascending(_)
Ascending(S) ==
    IF S = {} THEN <<>>
    ELSE LET m == CHOOSE x \in S : \A y \in S : x <= y
         IN  <<m>> \o Ascending(S \ {m})

EmptyResult ==
    [processed_messages |-> 0, processed_attachments |-> 0,
     created_candidates |-> 0, skipped_candidates |-> 0,
     errors |-> <<>>, imported_candidates |-> <<>>]

\* The stored candidates the dedup policy calls duplicates of (name, email):
\* same name up to case and, when an email is available, same email up to case.
PolicyDuplicates(rows, name, email) ==
    {i \in 1..Len(rows) :
        /\ EqNoCase(rows[i].name, name)
        /\ Truthy(email) =>
              (rows[i].email.some /\ EqNoCase(rows[i].email.val, email.val))}

\* A for loop that takes the same item again.
Remaining_Same(items) == items

\* `for message in messages`: what is left after the current item.
Remaining(items) == Tail(items)

\* How the try block of one candidate ends: everything returned;
\* analyze_candidate raised, with the session intact or in need of a
\* rollback; analyze_candidate returned and the lookup after it raised.
AnalysisOutcomes == {"returned", "raised", "storage", "lookup"}

\* sync(): the lock is taken and 'sync_started' is logged; then ingest_unread
\* is entered: the counters start at zero.
GmailStart ==
    /\ g_pc = "idle"
    /\ g_cycles < MaxGmailCycles
    /\ ~sync_lock
    /\ sync_lock' = TRUE
    /\ g_pc' = "fetch"
    /\ g_cycles' = g_cycles + 1
    /\ g_result' = EmptyResult
    /\ g_before' = g_before \cup g_now
    /\ g_now' = {}
    /\ g_seen' = {}
    /\ log_entries' = DequeAppend(log_entries,
                          LogEntry("info", "sync_started", CandidateDetails(0, 0)))
    /\ log_adds' = log_adds + 1
    /\ s_loop' = [NoLoop EXCEPT !.first = log_adds + 1]
    /\ s_result' = [NoSyncResult EXCEPT !.status = "running"]
    /\ UNCHANGED <<unread, g_msgs, g_att, g_successful, last_att, candidates,
                   s_links, s_texts, notCycle>>

\* _fetch_unread_messages: search UNSEEN, then FETCH (RFC822) of every hit on
\* the folder selected read-write, which sets \Seen on each fetched message.
GmailFetch ==
    /\ g_pc = "fetch"
    /\ g_msgs' = Ascending(unread)
    /\ unread' = {}
    /\ g_pc' = "message"
    /\ g_seen' = unread
    /\ UNCHANGED <<g_att, g_successful, g_result, g_cycles, g_before, g_now,
                   last_att, candidates, notGmail>>

\* The ways the mailbox connector fails by an exception: the settings checks
\* of ingest_unread, and _connect, login and search of _fetch_unread_messages.
MailboxFailures == {"disabled", "credentials", "connect", "login", "search"}

\* The connector fails: ingest_unread raises, and so does sync(), whose
\* `async with` releases the lock.
GmailFetchRaise(failure) ==
    /\ g_pc = "fetch"
    /\ g_pc' = "idle"
    /\ sync_lock' = FALSE
    /\ s_result' = [s_result EXCEPT !.status = "raised", !.mailbox = failure]
    /\ UNCHANGED <<unread, g_msgs, g_att, g_successful, g_result, g_cycles,
                   g_before, g_now, last_att, candidates, g_seen,
                   log_entries, log_adds, s_loop, s_links, s_texts, notCycle>>

\* The server answers the search with NO: imaplib returns the status, and
\* _fetch_unread_messages returns the empty list.
GmailSearchNotOk ==
    /\ g_pc = "fetch"
    /\ g_msgs' = <<>>
    /\ g_pc' = "message"
    /\ s_result' = [s_result EXCEPT !.mailbox = "search"]
    /\ UNCHANGED <<unread, g_att, g_successful, g_result, g_cycles, g_before,
                   g_now, last_att, candidates, g_seen, sync_lock,
                   log_entries, log_adds, s_loop, s_links, s_texts, notCycle>>

\* The next message of the loop.
GmailBeginMessage ==
    /\ g_pc = "message"
    /\ g_msgs # <<>>
    /\ g_result' = [g_result EXCEPT !.processed_messages = @ + 1]
    /\ g_successful' = 0
    /\ g_att' = 1
    /\ g_pc' = "attachment"
    /\ UNCHANGED <<unread, g_msgs, g_cycles, g_before, g_now, last_att,
                   candidates, g_seen, notGmail>>

\* One pass of the attachment loop: a disallowed extension is passed over; a
\* file that does not parse, or a lookup that raises, goes to errors; a
\* duplicate (None) is counted skipped; otherwise the candidate is created
\* and committed together with its auto-linked jobs.
GmailAttachment(llm) ==
    /\ g_pc = "attachment"
    /\ g_att <= Len(GmailAttachments(Head(g_msgs)))
    /\ LET att == GmailAttachments(Head(g_msgs))[g_att]
           key == <<Head(g_msgs), g_att>>
           name == ResolveName(att.resume, llm)
           email == ResolveEmail(att.resume)
           dup == FindDuplicate(candidates, name, email)
           outcome == IF ~att.allowed THEN "ignored"
                      ELSE IF ~att.parses THEN "error"
                      ELSE IF dup = "raise" THEN "error"
                      ELSE IF dup = "found" THEN "skipped"
                      ELSE "created"
           counted == [g_result EXCEPT !.processed_attachments = @ + 1]
       IN  /\ candidates' = IF outcome = "created"
                               THEN Append(candidates, [name |-> name, email |-> email])
                               ELSE candidates
           /\ g_result' =
                CASE outcome = "created" ->
                       [counted EXCEPT !.created_candidates = @ + 1,
                                       !.imported_candidates =
                                           Append(@, Len(candidates) + 1)]
                  [] outcome = "skipped" ->
                       [counted EXCEPT !.skipped_candidates = @ + 1]
                  [] outcome = "error" ->
                       [counted EXCEPT !.errors =
                           Append(@, IF att.parses THEN "MultipleResultsFound"
                                                   ELSE "ValueError")]
                  [] OTHER -> counted
           /\ g_successful' = IF outcome \in {"created", "skipped"}
                                 THEN g_successful + 1 ELSE g_successful
           /\ g_now' = IF outcome \in {"created", "skipped"}
                          THEN g_now \cup {key} ELSE g_now
           /\ last_att' = [key |-> key, outcome |-> outcome,
                           duplicates |->
                               IF att.allowed /\ att.parses
                                  THEN Cardinality(PolicyDuplicates(candidates, name, email))
                                  ELSE 0,
                           before |-> key \in g_before]
           /\ s_texts' = IF outcome = "created"
                             THEN Append(s_texts, GmailResumeText(Head(g_msgs), g_att))
                             ELSE s_texts
           /\ s_links' =
                IF outcome = "created"
                   THEN LET links == AutoLink(Jobs, GmailResumeText(Head(g_msgs), g_att))
                        IN  s_links \o
                            [i \in 1..Len(links) |->
                                [id |-> Len(s_links) + i,
                                 candidate_id |-> Len(candidates) + 1,
                                 job_description_id |-> links[i].job_description_id,
                                 confidence |-> links[i].confidence,
                                 linked_by |-> links[i].linked_by]]
                   ELSE s_links
    /\ g_att' = g_att + 1
    /\ UNCHANGED <<unread, g_pc, g_msgs, g_cycles, g_before, g_seen, sync_lock,
                   log_entries, log_adds, s_loop, s_result, notCycle>>

\* After the attachments of a message: it is flagged \Seen if one of them
\* succeeded, and the loop goes to the next message.
GmailEndMessage ==
    /\ g_pc = "attachment"
    /\ g_att > Len(GmailAttachments(Head(g_msgs)))
    /\ unread' = IF g_successful > 0 THEN unread \ {Head(g_msgs)} ELSE unread
    /\ g_msgs' = Remaining(g_msgs)
    /\ g_pc' = "message"
    /\ g_seen' = IF g_successful > 0 THEN g_seen \cup {Head(g_msgs)} ELSE g_seen
    /\ UNCHANGED <<g_att, g_successful, g_result, g_cycles, g_before, g_now,
                   last_att, candidates, notGmail>>

\* _mark_message_read fails (it is outside every try): ingest_unread raises,
\* and so does sync().
GmailMarkRaise ==
    /\ g_pc = "attachment"
    /\ g_att > Len(GmailAttachments(Head(g_msgs)))
    /\ g_successful > 0
    /\ g_pc' = "idle"
    /\ g_msgs' = <<>>
    /\ sync_lock' = FALSE
    /\ s_result' = [s_result EXCEPT !.status = "raised"]
    /\ UNCHANGED <<unread, g_att, g_successful, g_result, g_cycles, g_before,
                   g_now, last_att, candidates, g_seen,
                   log_entries, log_adds, s_loop, s_links, s_texts, notCycle>>

\* The loop is over: the result is returned to sync(), which copies the
\* errors and starts its loop over imported_candidates.
GmailReturn ==
    /\ g_pc = "message"
    /\ g_msgs = <<>>
    /\ g_pc' = "analyze"
    /\ s_loop' = [s_loop EXCEPT !.i = 1, !.errors = g_result.errors]
    /\ UNCHANGED <<unread, g_msgs, g_att, g_successful, g_result, g_cycles,
                   g_before, g_now, last_att, candidates, g_seen, sync_lock,
                   log_entries, log_adds, s_links, s_texts, s_result, notCycle>>

\* One pass of the loop of sync(): the best link is looked up on the shared
\* session, which raises out of sync() if the session needs a rollback; a
\* candidate without a link is counted and logged; otherwise
\* analyze_candidate is called on the shared session and returns, raises
\* with the session intact (ValueError, TypeError) or raises a storage error
\* of a flush or commit, after which the session needs a rollback.  After a
\* return the analysis is counted, and the lookup of the candidate's name
\* for the log entry, which is inside the same try, returns or raises.
SyncCandidate(outcome) ==
    /\ g_pc = "analyze"
    /\ s_loop.i <= Len(g_result.imported_candidates)
    /\ LET candidate_id == g_result.imported_candidates[s_loop.i]
           best_link == BestLink(s_links, candidate_id)
           next == [s_loop EXCEPT !.i = @ + 1]
           job == best_link[1].job_description_id
       IN  IF ~s_loop.session_ok
              THEN /\ g_pc' = "idle"
                   /\ sync_lock' = FALSE
                   /\ s_result' = [s_result EXCEPT !.status = "raised"]
                   /\ UNCHANGED <<s_loop, log_entries, log_adds>>
           ELSE IF best_link = <<>>
              THEN /\ s_loop' = [next EXCEPT !.no_jd_match_candidates = @ + 1]
                   /\ log_entries' = DequeAppend(log_entries,
                                         LogEntry("warning", "candidate_no_jd_match",
                                                  CandidateDetails(candidate_id, 0)))
                   /\ log_adds' = log_adds + 1
                   /\ UNCHANGED <<g_pc, s_result, sync_lock>>
           ELSE IF outcome = "returned"
              THEN /\ s_loop' = [next EXCEPT
                                    !.analyzed_candidates = @ + 1,
                                    !.calls = Append(@, [candidate_id |-> candidate_id,
                                                         job_description_id |-> job,
                                                         outcome |-> outcome])]
                   /\ log_entries' = DequeAppend(log_entries,
                                         LogEntry("info", "candidate_analyzed",
                                                  CandidateDetails(candidate_id, job)))
                   /\ log_adds' = log_adds + 1
                   /\ UNCHANGED <<g_pc, s_result, sync_lock>>
              ELSE /\ s_loop' = [next EXCEPT
                                    !.analyzed_candidates =
                                        IF outcome = "lookup" THEN @ + 1 ELSE @,
                                    !.analysis_errors = @ + 1,
                                    !.errors = Append(@, outcome),
                                    !.session_ok = (outcome # "storage"),
                                    !.calls = Append(@, [candidate_id |-> candidate_id,
                                                         job_description_id |-> job,
                                                         outcome |-> outcome])]
                   /\ log_entries' = DequeAppend(log_entries,
                                         LogEntry("error", "analysis_failed",
                                                  CandidateDetails(candidate_id, 0)))
                   /\ log_adds' = log_adds + 1
                   /\ UNCHANGED <<g_pc, s_result, sync_lock>>
    /\ UNCHANGED <<unread, g_msgs, g_att, g_successful, g_result, g_cycles,
                   g_before, g_now, last_att, candidates, g_seen,
                   s_links, s_texts, notCycle>>

\* After the loop: the 'sync_completed' entry with the counts, and the
\* GmailSyncResult is returned.
SyncReturn ==
    /\ g_pc = "analyze"
    /\ s_loop.i > Len(g_result.imported_candidates)
    /\ log_entries' = DequeAppend(log_entries,
                          LogEntry("info", "sync_completed", SyncCounts))
    /\ log_adds' = log_adds + 1
    /\ s_result' = [s_result EXCEPT
                        !.status = "complete", !.counts = SyncCounts,
                        !.errors = s_loop.errors,
                        !.imported_candidates = g_result.imported_candidates]
    /\ g_pc' = "idle"
    /\ sync_lock' = FALSE
    /\ UNCHANGED <<unread, g_msgs, g_att, g_successful, g_result, g_cycles,
                   g_before, g_now, last_att, candidates, g_seen,
                   s_loop, s_links, s_texts, notCycle>>

\* The process is killed and started again: the cycle's memory and the
\* activity log are lost, the store and the mailbox stay.
GmailRestart ==
    /\ g_pc # "idle"
    /\ g_pc' = "idle"
    /\ g_msgs' = <<>>
    /\ g_att' = 1
    /\ g_successful' = 0
    /\ g_result' = EmptyResult
    /\ log_entries' = <<>>
    /\ log_adds' = 0
    /\ s_loop' = NoLoop
    /\ s_result' = [NoSyncResult EXCEPT !.status = "killed"]
    /\ sync_lock' = FALSE
    /\ UNCHANGED <<unread, g_cycles, g_before, g_now, last_att, candidates, g_seen,
                   s_links, s_texts, notCycle>>

\* The mailbox presents a message as unread: it arrives, or its owner flags
\* it unread again.
MailboxUnread(m) ==
    /\ m \notin unread
    /\ g_cycles < MaxGmailCycles
    /\ unread' = unread \cup {m}
    /\ UNCHANGED <<g_pc, g_msgs, g_att, g_successful, g_result, g_cycles,
                   g_before, g_now, last_att, candidates, g_seen, notGmail>>

NextGmail ==
    \/ GmailStart
    \/ GmailFetch
    \/ \E failure \in MailboxFailures : GmailFetchRaise(failure)
    \/ GmailSearchNotOk
    \/ GmailBeginMessage
    \/ \E llm \in LlmNames : GmailAttachment(llm)
    \/ GmailEndMessage
    \/ GmailMarkRaise
    \/ GmailReturn
    \/ \E outcome \in AnalysisOutcomes : SyncCandidate(outcome)
    \/ SyncReturn
    \/ GmailRestart
    \/ \E m \in GmailMessages : MailboxUnread(m)

C5_DuplicateIsSkipped ==
    last_att.duplicates >= 1 => last_att.outcome = "skipped"

\* C20: a message is flagged as read by a cycle only if at least one of its
\* attachments was processed without raising in that cycle: once the cycle is
\* through with a message, the message has a processed attachment or its
\* flag was not set by the cycle.
C20_ReadOnlyAfterSuccess ==
    \A m \in g_seen :
        (\A i \in 1..Len(g_msgs) : g_msgs[i] # m) =>
            \E key \in g_now : key[1] = m

\* C21: ingestion is at-least-once: the seen flag of a message is set only in
\* a step after which one of its attachments has been processed by the cycle
\* (row committed or duplicate detected), and when the process is killed
\* before that, the fetched messages with no processed attachment are still
\* unread for the search of the next cycle.
C21_AtLeastOnce ==
    [][/\ \A m \in unread \ unread' : \E key \in g_now' : key[1] = m
       /\ GmailRestart =>
             \A i \in 1..Len(g_msgs) :
                 (\A key \in g_now : key[1] # g_msgs[i]) => g_msgs[i] \in unread']_vars

\* The entries the cycle started last has appended, oldest first.
CycleEntries ==
    SelectSeq(log_entries, LAMBDA e : s_loop.first > 0 /\ e.timestamp >= s_loop.first)

\* The cycle started last has ended, by a return or by an exception.
CycleOver == g_pc = "idle" /\ s_result.status \in {"complete", "raised"}

\* The analyze_candidate calls of the cycle that raised.
FailedCalls == {n \in 1..Len(s_loop.calls) : s_loop.calls[n].outcome # "returned"}

\* C22: a failure while analyzing one candidate never aborts the batch: it is
\* counted in analysis_errors and logged as 'analysis_failed', every later
\* imported candidate is still visited, and the cycle ends with its summary
\* entry.
C22_FailureNeverAborts ==
    LET failed_entries == SelectSeq(CycleEntries,
                                    LAMBDA e : e.action = "analysis_failed")
    IN  /\ s_loop.analysis_errors = Cardinality(FailedCalls)
        /\ Len(failed_entries) = Cardinality(FailedCalls)
        /\ (CycleOver /\ FailedCalls # {}) =>
              /\ s_result.status = "complete"
              /\ s_loop.i = Len(g_result.imported_candidates) + 1
              /\ CycleEntries[Len(CycleEntries)].action = "sync_completed"

\* C23: every error a sync cycle catches and continues past (a failed
\* attachment during ingestion, a failed candidate analysis) is in the errors
\* list returned to the caller and has an entry in the activity log.
C23_CaughtErrorsLogged ==
    s_result.status = "complete" =>
        LET caught == Len(g_result.errors) + Cardinality(FailedCalls)
            error_entries == SelectSeq(CycleEntries, LAMBDA e : e.level = "error")
        IN  /\ Len(s_result.errors) = caught
            /\ Len(error_entries) >= caught

\* C28: in a sync cycle, analysis is invoked exactly once for each candidate
\* created in that cycle that has at least one job link, against the job of
\* its highest-confidence link (the lowest link id on equal confidence), and
\* never for any other candidate.
C28_AnalysisRouting ==
    LET created == {g_result.imported_candidates[n] :
                       n \in 1..Len(g_result.imported_candidates)}
        LinksOf(c) == {n \in 1..Len(s_links) : s_links[n].candidate_id = c}
        CallsFor(c) == {n \in 1..Len(s_loop.calls) : s_loop.calls[n].candidate_id = c}
    IN  /\ \A n \in 1..Len(s_loop.calls) :
               LET call == s_loop.calls[n]
               IN  /\ call.candidate_id \in created
                   /\ Cardinality(CallsFor(call.candidate_id)) = 1
                   /\ \E l \in LinksOf(call.candidate_id) :
                          /\ s_links[l].job_description_id = call.job_description_id
                          /\ \A o \in LinksOf(call.candidate_id) :
                                 \/ s_links[l].confidence > s_links[o].confidence
                                 \/ /\ s_links[l].confidence = s_links[o].confidence
                                    /\ s_links[l].id <= s_links[o].id
        /\ CycleOver =>
               \A c \in created : LinksOf(c) # {} => Cardinality(CallsFor(c)) = 1

\* C29: a candidate for which no job has a match score above zero gets no
\* CandidateJobLink, and in the sync cycle that created it no analysis is run
\* for it: it is counted in no_jd_match_candidates and a
\* 'candidate_no_jd_match' warning entry naming it is in the activity log.
C29_UnmatchedFlagged ==
    LET created == {g_result.imported_candidates[n] :
                       n \in 1..Len(g_result.imported_candidates)}
        NoMatch(c) == \A j \in 1..Len(Jobs) : MatchScore(Jobs[j], s_texts[c]) = 0
        unmatched == {c \in created : NoMatch(c)}
        Flagged(c) == \E n \in 1..Len(CycleEntries) :
                          /\ CycleEntries[n].action = "candidate_no_jd_match"
                          /\ CycleEntries[n].level = "warning"
                          /\ CycleEntries[n].details.candidate_id = c
    IN  /\ \A c \in 1..Len(s_texts) :
               NoMatch(c) => \A n \in 1..Len(s_links) : s_links[n].candidate_id # c
        /\ \A c \in unmatched :
               \A n \in 1..Len(s_loop.calls) : s_loop.calls[n].candidate_id # c
        /\ CycleOver =>
               /\ \A c \in unmatched : Flagged(c)
               /\ s_loop.no_jd_match_candidates >= Cardinality(unmatched)

\* C30: every sync cycle whose ingestion step returns appends exactly one
\* 'sync_started' entry before every other entry of the cycle and exactly one
\* 'sync_completed' entry after all of them, and the counts in that summary
\* entry equal the counts of the GmailSyncResult returned to the caller.
C30_SummaryBrackets ==
    (CycleOver /\ s_loop.i >= 1) =>
        LET n == Len(CycleEntries)
            Count(action) == Len(SelectSeq(CycleEntries, LAMBDA e : e.action = action))
        IN  /\ n >= 2
            /\ CycleEntries[1].action = "sync_started"
            /\ Count("sync_started") = 1
            /\ CycleEntries[n].action = "sync_completed"
            /\ Count("sync_completed") = 1
            /\ s_result.status = "complete"
            /\ CycleEntries[n].details = s_result.counts

\* C31: when the mailbox connector fails (ingestion disabled, credentials
\* missing, connect, login or search error), the cycle creates no candidate
\* and makes no analysis, and it ends with the failure raised to the trigger
\* and the sync lock released, so that a later trigger can start a new cycle.
C31_MailboxFailureAborts ==
    s_result.mailbox # "none" =>
        /\ g_result.created_candidates = 0
        /\ s_loop.calls = <<>>
        /\ g_pc = "idle" => (s_result.status = "raised" /\ ~sync_lock)

\* A step of the running cycle other than a pass of the attachment loop: an
\* external call returns or fails, or the code between two calls runs.
CycleStep ==
    \/ GmailFetch
    \/ \E failure \in MailboxFailures : GmailFetchRaise(failure)
    \/ GmailSearchNotOk
    \/ GmailBeginMessage
    \/ GmailEndMessage
    \/ GmailMarkRaise
    \/ GmailReturn
    \/ \E outcome \in AnalysisOutcomes : SyncCandidate(outcome)
    \/ SyncReturn

\* The attachment loop has an attachment to take: GmailAttachment is enabled.
AttachmentPending ==
    g_pc = "attachment" /\ g_att <= Len(GmailAttachments(Head(g_msgs)))

\* C32: every started sync cycle terminates: as long as each external call
\* returns or fails, the cycle reaches its end; it begins no more messages
\* than were fetched and visits no more candidates than were imported, and
\* it takes no message and no candidate twice.
C32_CycleTerminates ==
    /\ [](/\ g_result.processed_messages <= Cardinality(g_seen)
          /\ g_pc \in {"message", "attachment"} =>
                /\ g_result.processed_messages + Len(g_msgs) =
                       Cardinality(g_seen) + (IF g_pc = "attachment" THEN 1 ELSE 0)
                /\ \A i, j \in 1..Len(g_msgs) : i < j => g_msgs[i] < g_msgs[j]
          /\ s_loop.i <= Len(g_result.imported_candidates) + 1
          /\ Len(s_loop.calls) + s_loop.no_jd_match_candidates = 
                 (IF s_loop.i = 0 THEN 0 ELSE s_loop.i - 1)
          /\ \A i, j \in 1..Len(s_loop.calls) :
                 i < j => s_loop.calls[i].candidate_id < s_loop.calls[j].candidate_id)
    /\ (g_pc # "idle" ~> g_pc = "idle")

\* A cycle over two fetched messages and two imported candidates has ended.
C32_Witness ==
    /\ g_pc = "idle"
    /\ s_result.status = "complete"
    /\ g_result.processed_messages = 2
    /\ Len(g_result.imported_candidates) = 2
    /\ s_loop.i = 3

\* C39: for every completed sync cycle, analyzed_candidates +
\* no_jd_match_candidates + analysis_errors equals created_candidates, the
\* number of candidates imported in the cycle, and the returned errors list
\* is the ingestion errors followed by one entry per analysis error.
C39_CountsAddUp ==
    s_result.status = "complete" =>
        LET counts == s_result.counts
            n == Len(g_result.errors)
        IN  /\ counts.created_candidates = Len(s_result.imported_candidates)
            /\ counts.analyzed_candidates + counts.no_jd_match_candidates
                  + counts.analysis_errors = counts.created_candidates
            /\ Len(s_result.errors) = n + counts.analysis_errors
            /\ SubSeq(s_result.errors, 1, n) = g_result.errors
---------------------------------------------------------------------------
(* Outlook (Graph) ingestion: POST /outlook/ingest, one session per request, *)
(* no lock                                                                   *)

Requests == {"req1", "req2"}

\* The mailbox: message 1 carries two resumes; the one attachment of
\* message 2 parses to empty text.
OutlookMessages == {1, 2}
ValidAttachments(m) == IF m = 1 THEN <<1, 2>> ELSE <<1>>
EmptyResumeText(m, a) == m = 2

\* "$orderby": "receivedDateTime desc": newest first.
RECURSIVE Descending(_)
Descending(S) ==
    IF S = {} THEN <<>>
    ELSE LET m == CHOOSE x \in S : \A y \in S : x >= y
         IN  <<m>> \o Descending(S \ {m})

EmptyIngestionResult ==
    [processed_messages |-> 0, processed_attachments |-> 0,
     created_candidates |-> 0, skipped_candidates |-> 0, errors |-> 0]

\* The rows the lookup of _process_attachment selects.
ExistingRows(m, a) ==
    {i \in 1..Len(o_rows) :
        /\ o_rows[i].source_message_id = m
        /\ o_rows[i].source_attachment_id = a}

\* ingest_unread: the unread messages with attachments are listed.
OutlookStart(r) ==
    /\ o_pc[r] = "idle"
    /\ o_runs < MaxOutlookRuns
    /\ o_runs' = o_runs + 1
    /\ o_msgs' = [o_msgs EXCEPT ![r] = Descending(o_unread)]
    /\ o_result' = [o_result EXCEPT ![r] = EmptyIngestionResult]
    /\ o_pc' = [o_pc EXCEPT ![r] = "message"]
    /\ UNCHANGED <<o_unread, o_rows, o_atts, o_successful, notOutlook>>

\* The next message: its attachments are fetched and filtered.
OutlookBeginMessage(r) ==
    /\ o_pc[r] = "message"
    /\ o_msgs[r] # <<>>
    /\ o_result' = [o_result EXCEPT ![r].processed_messages = @ + 1]
    /\ o_atts' = [o_atts EXCEPT ![r] = ValidAttachments(Head(o_msgs[r]))]
    /\ o_successful' = [o_successful EXCEPT ![r] = 0]
    /\ o_pc' = [o_pc EXCEPT ![r] = "existing"]
    /\ UNCHANGED <<o_unread, o_rows, o_msgs, o_runs, notOutlook>>

\* The attachments request fails: the message goes to errors.
OutlookMessageRaise(r) ==
    /\ o_pc[r] = "message"
    /\ o_msgs[r] # <<>>
    /\ o_result' = [o_result EXCEPT ![r].processed_messages = @ + 1,
                                    ![r].errors = @ + 1]
    /\ o_msgs' = [o_msgs EXCEPT ![r] = Tail(@)]
    /\ UNCHANGED <<o_unread, o_rows, o_pc, o_atts, o_successful, o_runs, notOutlook>>

\* _process_attachment up to its first await after the lookup: a stored row
\* for (message id, attachment id) means skip; several rows make
\* scalar_one_or_none raise; none means the attachment goes on to download,
\* parsing and classification.
OutlookCheckExisting(r) ==
    /\ o_pc[r] = "existing"
    /\ o_atts[r] # <<>>
    /\ LET n == Cardinality(ExistingRows(Head(o_msgs[r]), Head(o_atts[r])))
           counted == [o_result[r] EXCEPT !.processed_attachments = @ + 1]
       IN  /\ o_result' = [o_result EXCEPT ![r] =
                  IF n = 0 THEN counted
                  ELSE IF n = 1 THEN [counted EXCEPT !.skipped_candidates = @ + 1]
                  ELSE [counted EXCEPT !.errors = @ + 1]]
           /\ o_successful' = [o_successful EXCEPT ![r] = IF n = 1 THEN @ + 1 ELSE @]
           /\ o_atts' = [o_atts EXCEPT ![r] = IF n = 0 THEN @ ELSE Tail(@)]
           /\ o_pc' = [o_pc EXCEPT ![r] = IF n = 0 THEN "classify" ELSE "existing"]
    /\ UNCHANGED <<o_unread, o_rows, o_msgs, o_runs, notOutlook>>

\* The rest of _process_attachment, after the awaits on the download and on
\* the classifier: empty text raises, otherwise the row is added and committed.
OutlookStore(r) ==
    /\ o_pc[r] = "classify"
    /\ LET m == Head(o_msgs[r])
           a == Head(o_atts[r])
       IN  IF EmptyResumeText(m, a)
              THEN /\ o_result' = [o_result EXCEPT ![r].errors = @ + 1]
                   /\ UNCHANGED <<o_rows, o_successful>>
              ELSE /\ o_rows' = Append(o_rows, [source_message_id |-> m,
                                                source_attachment_id |-> a])
                   /\ o_result' = [o_result EXCEPT ![r].created_candidates = @ + 1]
                   /\ o_successful' = [o_successful EXCEPT ![r] = @ + 1]
    /\ o_atts' = [o_atts EXCEPT ![r] = Tail(@)]
    /\ o_pc' = [o_pc EXCEPT ![r] = "existing"]
    /\ UNCHANGED <<o_unread, o_msgs, o_runs, notOutlook>>

\* After the attachments of a message: it is marked read if one succeeded.
OutlookEndMessage(r) ==
    /\ o_pc[r] = "existing"
    /\ o_atts[r] = <<>>
    /\ o_unread' = IF o_successful[r] > 0 THEN o_unread \ {Head(o_msgs[r])}
                                          ELSE o_unread
    /\ o_msgs' = [o_msgs EXCEPT ![r] = Tail(@)]
    /\ o_pc' = [o_pc EXCEPT ![r] = "message"]
    /\ UNCHANGED <<o_rows, o_atts, o_successful, o_result, o_runs, notOutlook>>

\* The loop is over: the response is sent.
OutlookReturn(r) ==
    /\ o_pc[r] = "message"
    /\ o_msgs[r] = <<>>
    /\ o_pc' = [o_pc EXCEPT ![r] = "idle"]
    /\ UNCHANGED <<o_unread, o_rows, o_msgs, o_atts, o_successful, o_result,
                   o_runs, notOutlook>>

\* The mailbox presents a message as unread: it arrives, or its owner flags
\* it unread again.
OutlookUnread(m) ==
    /\ m \notin o_unread
    /\ o_runs < MaxOutlookRuns
    /\ o_unread' = o_unread \cup {m}
    /\ UNCHANGED <<o_rows, o_pc, o_msgs, o_atts, o_successful, o_result, o_runs,
                   notOutlook>>

NextOutlook ==
    \/ \E r \in Requests : OutlookStart(r)
    \/ \E r \in Requests : OutlookBeginMessage(r)
    \/ \E r \in Requests : OutlookMessageRaise(r)
    \/ \E r \in Requests : OutlookCheckExisting(r)
    \/ \E r \in Requests : OutlookStore(r)
    \/ \E r \in Requests : OutlookEndMessage(r)
    \/ \E r \in Requests : OutlookReturn(r)
    \/ \E m \in OutlookMessages : OutlookUnread(m)

\* C2: no attachment is ever double-processed: under every interleaving of
\* ingestion requests, no (message id, attachment id) pair has more than one
\* stored ingestion record.
C2_NoDoubleProcessing ==
    \A m \in OutlookMessages :
        \A i \in 1..Len(ValidAttachments(m)) :
            Cardinality(ExistingRows(m, ValidAttachments(m)[i])) <= 1

---------------------------------------------------------------------------
(* Analysis writer: HiringAgent.analyze_candidate over SQLite *)

\* The callers of analyze_candidate: a request handler or the sync cycle,
\* each with a session (and connection) of its own.
Callers == {"caller1", "caller2"}
JobIds == {1, 2}

\* The candidate ids a call is made for: candidate 1 is stored, 2 is not.
CandidateIds == {1, 2}

\* A key the backend's JSON object does not hold, and Python's None.
Absent == "<absent>"
PyNone == "None"

\* Settings (defaults).
weight_skill_match == 40
weight_experience == 25
weight_domain_knowledge == 15
weight_project_complexity == 10
weight_soft_skills == 10
threshold_strong_hire == 80
threshold_borderline == 60

\* The marker analyze_resume puts in front of the error when the backend fails.
FailureMarker == "LLM analysis failed: "

\* What analyze_resume can return.  `numeric` is FALSE for a reply whose
\* scores are not numbers (JSON strings).
Reply(numeric, s1, s2, s3, s4, s5, seniority, risk_level, recommendation) ==
    [numeric |-> numeric,
     skill_match_score |-> s1, experience_score |-> s2, domain_score |-> s3,
     project_complexity_score |-> s4, soft_skills_score |-> s5,
     seniority |-> seniority, risk_level |-> risk_level,
     recommendation |-> recommendation]

\* The dictionary analyze_resume returns when invoke_with_json raises.
Fallback ==
    Reply(TRUE, 0, 0, 0, 0, 0, PyNone, "low", <<FailureMarker, "timeout">>)

LlmReplies ==
    {Reply(TRUE, 90, 80, 70, 80, 90, "senior", "low", <<"Recommended.">>),
     Reply(TRUE, 60, 60, 60, 60, 60, Absent, "high", <<"Has gaps.">>),
     Reply(TRUE, 150, 100, 100, 100, 100, "senior", "low", <<"Outstanding.">>),
     Reply(FALSE, 0, 0, 0, 0, 0, "junior", "low", <<"Recommended.">>)}

\* Settings.scoring_weights and Settings.decision_thresholds of the defaults.
DefaultSettings ==
    [weights |-> [skill_match |-> weight_skill_match,
                  experience |-> weight_experience,
                  domain_knowledge |-> weight_domain_knowledge,
                  project_complexity |-> weight_project_complexity,
                  soft_skills |-> weight_soft_skills],
     strong_hire |-> threshold_strong_hire,
     borderline |-> threshold_borderline]

\* round(x, 2) that drops the third decimal.
Round2_Truncate(thousandths, tie) == thousandths \div 10

\* round(x, 2) of a number of thousandths, in hundredths; a value halfway
\* between two hundredths goes up or down with the float that holds it.
Round2(thousandths, tie) ==
    LET q == thousandths \div 10
        r == thousandths % 10
    IN  IF r < 5 THEN q
        ELSE IF r > 5 THEN q + 1
        ELSE IF tie THEN q + 1 ELSE q

\* calculate_final_score: scores in tenths of a point, the result in
\* hundredths.  score * weight / 100 points is score * weight thousandths.
calculate_final_score(weights, scores, tie) ==
    Round2(scores[1] * weights.skill_match
             + scores[2] * weights.experience
             + scores[3] * weights.domain_knowledge
             + scores[4] * weights.project_complexity
             + scores[5] * weights.soft_skills, tie)

\* determine_decision with less caution at medium risk: both cutoffs as at
\* low risk.
determine_decision_MediumAsLow(s, final_score, risk_level) ==
    LET strong_hire_threshold ==
            IF risk_level = "high" THEN s.strong_hire + 10 ELSE s.strong_hire
        borderline_threshold ==
            IF risk_level = "high" THEN s.borderline + 5 ELSE s.borderline
    IN  IF final_score >= strong_hire_threshold * 100 THEN "strong_hire"
        ELSE IF final_score >= borderline_threshold * 100 THEN "borderline"
        ELSE "reject"

\* determine_decision with a strong-hire cutoff that is lowered at high risk.
determine_decision_LoweredAtHigh(s, final_score, risk_level) ==
    LET strong_hire_threshold ==
            IF risk_level = "high" THEN s.strong_hire - 10
            ELSE IF risk_level = "medium" THEN s.strong_hire + 5
            ELSE s.strong_hire
        borderline_threshold ==
            IF risk_level = "high" THEN s.borderline + 5
            ELSE s.borderline
    IN  IF final_score >= strong_hire_threshold * 100 THEN "strong_hire"
        ELSE IF final_score >= borderline_threshold * 100 THEN "borderline"
        ELSE "reject"

\* determine_decision under the thresholds of settings s; final_score in
\* hundredths.  Any risk level other than high and medium is treated as low.
determine_decision(s, final_score, risk_level) ==
    LET strong_hire_threshold ==
            IF risk_level = "high" THEN s.strong_hire + 10
            ELSE IF risk_level = "medium" THEN s.strong_hire + 5
            ELSE s.strong_hire
        borderline_threshold ==
            IF risk_level = "high" THEN s.borderline + 5
            ELSE s.borderline
    IN  IF final_score >= strong_hire_threshold * 100 THEN "strong_hire"
        ELSE IF final_score >= borderline_threshold * 100 THEN "borderline"
        ELSE "reject"

\* generate_recommendation: how the text begins.
generate_recommendation(final_score, decision) ==
    IF decision = "strong_hire"
       THEN <<"**Strong Hire Recommendation** (Score: ", final_score>>
    ELSE IF decision = "borderline"
       THEN <<"**Borderline Candidate** (Score: ", final_score>>
    ELSE <<"**Not Recommended** (Score: ", final_score>>

\* analysis_data after score_candidate and analysis_data.update(...): the
\* scores, final score, decision, recommendation and timestamp are set, every
\* other key is as the backend returned it.
AnalysisData(reply, ts) ==
    LET final == calculate_final_score(DefaultSettings.weights,
                     <<10 * reply.skill_match_score, 10 * reply.experience_score,
                       10 * reply.domain_score, 10 * reply.project_complexity_score,
                       10 * reply.soft_skills_score>>, TRUE)
        decision == determine_decision(DefaultSettings, final,
                        IF reply.risk_level = Absent THEN "low" ELSE reply.risk_level)
    IN  [skill_match_score |-> reply.skill_match_score,
         experience_score |-> reply.experience_score,
         domain_score |-> reply.domain_score,
         project_complexity_score |-> reply.project_complexity_score,
         soft_skills_score |-> reply.soft_skills_score,
         final_score |-> final,
         decision |-> decision,
         recommendation |-> generate_recommendation(final, decision),
         seniority |-> reply.seniority,
         risk_level |-> reply.risk_level,
         analysis_timestamp |-> ts]

NoData == [analysis_timestamp |-> 0]

\* The keys the replies of the model leave out.
OptionalKeys == {"seniority", "risk_level"}

\* Model(**analysis_data): a column whose key is absent is NULL.
NewFields(data) ==
    [f \in DOMAIN data |->
        IF f \in OptionalKeys /\ data[f] = Absent THEN PyNone ELSE data[f]]

\* setattr(existing, key, value) for every key of analysis_data: a column
\* whose key is absent keeps its value.
UpdatedFields(old, data) ==
    [f \in DOMAIN data |->
        IF f \in OptionalKeys /\ data[f] = Absent THEN old[f] ELSE data[f]]

\* The committed CandidateAnalysis rows of a candidate.
AnalysesOf(cand) == {a \in db_analyses : a.candidate_id = cand}

\* The transaction of the flushed INSERT is committed at once.
Autocommit_On == TRUE

\* The engine is created with the driver's transactions: what a session
\* flushes is committed by its commit() only.
Autocommit == FALSE

\* The calls in progress.
Running == {c \in Callers : a_pc[c] # "idle"}

Ended(c, how) ==
    [a_hist EXCEPT ![a_call[c].ts].outcome = how]

IdleCall ==
    [candidate_id |-> 0, job_description_id |-> 0, ts |-> 0, data |-> NoData,
     run_pending |-> FALSE, analysis |-> "none", attempt |-> 0]

\* analyze_candidate is entered on the caller's session: the candidate and the
\* job are looked up; a missing candidate raises ValueError.
AnalyzeStart(c, cand, job) ==
    /\ a_pc[c] = "idle"
    /\ a_session_ok[c]
    /\ clock < MaxAnalyses
    /\ clock' = clock + 1
    /\ LET found == cand \in 1..Len(candidates)
           entry == [caller |-> c, candidate_id |-> cand, job_description_id |-> job,
                     outcome |-> IF found THEN "running" ELSE "raised",
                     overlapped |-> Running # {},
                     llm_failed |-> FALSE, scored |-> FALSE, upserted |-> FALSE,
                     commits |-> <<>>, returned |-> NoData]
           others == {a_call[d].ts : d \in Running}
       IN  /\ a_hist' = Append([t \in 1..Len(a_hist) |->
                                   IF t \in others
                                      THEN [a_hist[t] EXCEPT !.overlapped = TRUE]
                                      ELSE a_hist[t]],
                               entry)
           /\ a_pc' = [a_pc EXCEPT ![c] = IF found THEN "llm" ELSE "idle"]
           /\ a_call' = [a_call EXCEPT ![c] =
                  IF found THEN [IdleCall EXCEPT !.candidate_id = cand,
                                                 !.job_description_id = job,
                                                 !.ts = clock + 1]
                           ELSE IdleCall]
    /\ UNCHANGED <<db_runs, db_analyses, db_writer, a_session_ok, notAnalyze>>

\* analyze_resume returns the backend's reply; normalisation, scoring and the
\* update of analysis_data follow.  Scores that are not numbers make
\* calculate_final_score raise TypeError.
LlmReturn(c, reply) ==
    /\ a_pc[c] = "llm"
    /\ IF reply.numeric
          THEN /\ a_call' = [a_call EXCEPT ![c].data = AnalysisData(reply, a_call[c].ts)]
               /\ a_hist' = [a_hist EXCEPT ![a_call[c].ts].scored = TRUE]
               /\ a_pc' = [a_pc EXCEPT ![c] = "flush"]
          ELSE /\ a_call' = [a_call EXCEPT ![c] = IdleCall]
               /\ a_hist' = Ended(c, "raised")
               /\ a_pc' = [a_pc EXCEPT ![c] = "idle"]
    /\ UNCHANGED <<db_runs, db_analyses, db_writer, a_session_ok, clock, notAnalyze>>

\* The backend times out, is unreachable or returns unparseable output:
\* analyze_resume returns its fallback dictionary, which is scored like a reply.
LlmFail(c) ==
    /\ a_pc[c] = "llm"
    /\ a_call' = [a_call EXCEPT ![c].data = AnalysisData(Fallback, a_call[c].ts)]
    /\ a_hist' = [a_hist EXCEPT ![a_call[c].ts].scored = TRUE,
                                ![a_call[c].ts].llm_failed = TRUE]
    /\ a_pc' = [a_pc EXCEPT ![c] = "flush"]
    /\ UNCHANGED <<db_runs, db_analyses, db_writer, a_session_ok, clock, notAnalyze>>

\* session.add(analysis_run), then the select of the existing analysis, which
\* autoflushes the run: the INSERT begins the connection's transaction and
\* takes SQLite's write lock.  The select then sees the committed rows, and the
\* analysis is updated in the session or a new one is added to it.
FlushRun(c) ==
    /\ a_pc[c] = "flush"
    /\ db_writer = "none"
    /\ db_writer' = IF Autocommit THEN "none" ELSE c
    /\ db_runs' = IF Autocommit
                     THEN Append(db_runs, [candidate_id |-> a_call[c].candidate_id,
                                           job_description_id |-> a_call[c].job_description_id,
                                           fields |-> NewFields(a_call[c].data)])
                     ELSE db_runs
    /\ a_call' = [a_call EXCEPT ![c].run_pending = TRUE,
                                ![c].analysis =
                                    IF AnalysesOf(a_call[c].candidate_id) # {}
                                       THEN "existing" ELSE "new",
                                ![c].attempt = 1]
    /\ a_pc' = [a_pc EXCEPT ![c] = "commit"]
    /\ UNCHANGED <<db_analyses, a_session_ok, a_hist, clock, notAnalyze>>

\* Another connection holds the write lock for the whole busy timeout: the
\* autoflush raises "database is locked" out of the select, outside the retry
\* loop, and the session needs a rollback.
FlushLocked(c) ==
    /\ a_pc[c] = "flush"
    /\ db_writer \notin {"none", c}
    /\ a_session_ok' = [a_session_ok EXCEPT ![c] = FALSE]
    /\ a_call' = [a_call EXCEPT ![c] = IdleCall]
    /\ a_hist' = Ended(c, "raised")
    /\ a_pc' = [a_pc EXCEPT ![c] = "idle"]
    /\ UNCHANGED <<db_runs, db_analyses, db_writer, clock, notAnalyze>>

\* The rows of the candidate after the upsert of the call is committed.
Upserted(c) ==
    LET cand == a_call[c].candidate_id
        old == AnalysesOf(cand)
    IN  IF a_call[c].analysis = "existing"
           THEN (db_analyses \ old) \cup
                {[candidate_id |-> cand,
                  fields |-> UpdatedFields(a.fields, a_call[c].data)] : a \in old}
           ELSE db_analyses \cup
                {[candidate_id |-> cand, fields |-> NewFields(a_call[c].data)]}

\* One pass of the retry loop, as the history of the call keeps it: how the
\* commit ended, whether the session was rolled back, and the sleep in tenths
\* of a second.
Attempt(result, rolled_back, slept) ==
    [result |-> result, rolled_back |-> rolled_back, slept |-> slept]

\* The messages of the OperationalError a commit can raise, in words.
OperationalErrors ==
    {<<"(sqlite3.OperationalError)", "database", "is", "locked">>,
     <<"(sqlite3.OperationalError)", "disk", "I/O", "error">>}

\* "database is locked" in str(exc).lower()
IsLocked(message) ==
    \E i \in 1..(Len(message) - 2) :
        SubSeq(message, i, i + 2) = <<"database", "is", "locked">>

\* A retry loop that goes on after every OperationalError.
Retried_Always(attempt, message) == TRUE

\* The except clause of the retry loop: the error is raised unless its
\* message holds "database is locked" and the attempt is not the third.
Retried(attempt, message) == IsLocked(message) /\ attempt # 3

\* session.commit() succeeds: what the session holds (the run, the analysis)
\* is flushed and committed together; a session that holds nothing commits
\* nothing.
CommitOk(c) ==
    /\ a_pc[c] = "commit"
    /\ IF a_call[c].run_pending
          THEN /\ db_runs' = IF Autocommit THEN db_runs
                             ELSE Append(db_runs,
                                      [candidate_id |-> a_call[c].candidate_id,
                                       job_description_id |-> a_call[c].job_description_id,
                                       fields |-> NewFields(a_call[c].data)])
               /\ db_analyses' = Upserted(c)
               /\ a_hist' = [a_hist EXCEPT
                                ![a_call[c].ts].upserted = TRUE,
                                ![a_call[c].ts].commits = Append(@, Attempt("ok", FALSE, 0))]
               /\ db_writer' = "none"
          ELSE /\ a_hist' = [a_hist EXCEPT
                                ![a_call[c].ts].commits = Append(@, Attempt("ok", FALSE, 0))]
               /\ UNCHANGED <<db_runs, db_analyses, db_writer>>
    /\ a_call' = [a_call EXCEPT ![c].run_pending = FALSE]
    /\ a_pc' = [a_pc EXCEPT ![c] = "refresh"]
    /\ UNCHANGED <<a_session_ok, clock, notAnalyze>>

\* session.commit() raises OperationalError with the given message.  When the
\* loop goes on, the session is rolled back, which discards the flushed run
\* and the pending analysis and ends the transaction, and the task sleeps
\* 0.5 s x attempt; otherwise the error is raised and the transaction stays
\* open until the session is rolled back.
CommitRaises(c, message) ==
    /\ a_pc[c] = "commit"
    /\ a_call[c].run_pending
    /\ LET result == IF IsLocked(message) THEN "locked" ELSE "error" IN
       IF Retried(a_call[c].attempt, message)
          THEN /\ a_call' = [a_call EXCEPT ![c].run_pending = FALSE,
                                          ![c].attempt = @ + 1]
               /\ a_hist' = [a_hist EXCEPT ![a_call[c].ts].commits =
                                Append(@, Attempt(result, TRUE, 5 * a_call[c].attempt))]
               /\ db_writer' = "none"
               /\ UNCHANGED <<a_pc, a_session_ok>>
          ELSE /\ a_call' = [a_call EXCEPT ![c] = IdleCall]
               /\ a_hist' = [a_hist EXCEPT
                                ![a_call[c].ts].outcome = "raised",
                                ![a_call[c].ts].commits =
                                    Append(@, Attempt(result, FALSE, 0))]
               /\ a_pc' = [a_pc EXCEPT ![c] = "idle"]
               /\ a_session_ok' = [a_session_ok EXCEPT ![c] = FALSE]
               /\ UNCHANGED db_writer
    /\ UNCHANGED <<db_runs, db_analyses, clock, notAnalyze>>

\* session.refresh(analysis), _log_action and return: the analysis is read
\* back from the store and returned.  An analysis that was new and was
\* discarded by a rollback is not in the session: refresh raises.
Refresh(c) ==
    /\ a_pc[c] = "refresh"
    /\ LET rows == AnalysesOf(a_call[c].candidate_id)
           lost == a_call[c].analysis = "new" /\ ~a_hist[a_call[c].ts].upserted
       IN  a_hist' = IF lost \/ rows = {}
                        THEN Ended(c, "raised")
                        ELSE [a_hist EXCEPT
                                 ![a_call[c].ts].outcome = "returned",
                                 ![a_call[c].ts].returned = (CHOOSE a \in rows : TRUE).fields]
    /\ a_call' = [a_call EXCEPT ![c] = IdleCall]
    /\ a_pc' = [a_pc EXCEPT ![c] = "idle"]
    /\ UNCHANGED <<db_runs, db_analyses, db_writer, a_session_ok, clock, notAnalyze>>

\* The caller's error handling ends the session: get_db rolls it back and
\* closes it, which ends its transaction; the next call gets a usable session.
SessionRollback(c) ==
    /\ a_pc[c] = "idle"
    /\ ~a_session_ok[c]
    /\ a_session_ok' = [a_session_ok EXCEPT ![c] = TRUE]
    /\ db_writer' = IF db_writer = c THEN "none" ELSE db_writer
    /\ UNCHANGED <<db_runs, db_analyses, a_pc, a_call, a_hist, clock, notAnalyze>>

NextAnalyze ==
    \/ \E c \in Callers, cand \in CandidateIds, job \in JobIds :
           AnalyzeStart(c, cand, job)
    \/ \E c \in Callers, reply \in LlmReplies : LlmReturn(c, reply)
    \/ \E c \in Callers : LlmFail(c)
    \/ \E c \in Callers : FlushRun(c)
    \/ \E c \in Callers : FlushLocked(c)
    \/ \E c \in Callers : CommitOk(c)
    \/ \E c \in Callers, message \in OperationalErrors : CommitRaises(c, message)
    \/ \E c \in Callers : Refresh(c)
    \/ \E c \in Callers : SessionRollback(c)

\* The committed runs that carry the timestamp of call ts.
RunsOfCall(ts) ==
    {i \in 1..Len(db_runs) : db_runs[i].fields.analysis_timestamp = ts}

\* The committed runs of a candidate, by position.
RunsOf(cand) == {i \in 1..Len(db_runs) : db_runs[i].candidate_id = cand}

CallNumbers == 1..Len(a_hist)

\* No call ever ran while another one was in progress.
Sequential == \A ts \in CallNumbers : ~a_hist[ts].overlapped

\* The most recently committed run of a candidate.
LastRun(cand) ==
    db_runs[CHOOSE i \in RunsOf(cand) : \A j \in RunsOf(cand) : j <= i]

\* C6: the analysis history is append-only and every successful
\* analyze_candidate call (one that returns) has added exactly one new
\* CandidateAnalysisRun row.
C6_ReturnedCallAddedOneRun ==
    \A ts \in CallNumbers :
        a_hist[ts].outcome = "returned" => Cardinality(RunsOfCall(ts)) = 1

\* C7: after any sequence of analyses there is at most one CandidateAnalysis
\* row per candidate, and its fields equal those of the candidate's most
\* recently committed CandidateAnalysisRun.
C7_OneRowEqualToLastRun ==
    Sequential =>
        \A cand \in 1..Len(candidates) :
            /\ Cardinality(AnalysesOf(cand)) <= 1
            /\ \A a \in AnalysesOf(cand) :
                   /\ RunsOf(cand) # {}
                   /\ a.fields = LastRun(cand).fields

\* C8: an analysis is written all-or-nothing: in every state each call has
\* committed both its run and its analysis upsert or neither, never more than
\* one run, and a run row exists only for a call whose scoring completed.
C8_RunAndAnalysisTogether ==
    \A ts \in CallNumbers :
        /\ (RunsOfCall(ts) # {}) <=> a_hist[ts].upserted
        /\ Cardinality(RunsOfCall(ts)) <= 1
        /\ RunsOfCall(ts) # {} => a_hist[ts].scored

\* One call has committed its run and its analysis, and another call, scored
\* and flushed, failed and left neither behind.
C8_Witness ==
    \E t1, t2 \in CallNumbers :
        /\ a_hist[t1].outcome = "returned" /\ a_hist[t1].upserted
        /\ RunsOfCall(t1) # {}
        /\ a_hist[t2].outcome = "raised" /\ a_hist[t2].scored
        /\ ~a_hist[t2].upserted /\ RunsOfCall(t2) = {}
        /\ \E c \in Callers : ~a_session_ok[c]

\* C9: when two concurrent calls for the same (candidate, job) pair, each on
\* its own session, have both returned, the CandidateAnalysis row of the
\* candidate equals the fields of one single committed run.
C9_FinalRowIsOneRun ==
    \A t1, t2 \in CallNumbers :
        ( /\ t1 < t2 /\ Running = {}
          /\ a_hist[t1].caller # a_hist[t2].caller
          /\ a_hist[t1].overlapped /\ a_hist[t2].overlapped
          /\ a_hist[t1].candidate_id = a_hist[t2].candidate_id
          /\ a_hist[t1].job_description_id = a_hist[t2].job_description_id
          /\ a_hist[t1].outcome = "returned" /\ a_hist[t2].outcome = "returned" )
        => \A a \in AnalysesOf(a_hist[t1].candidate_id) :
               \E i \in RunsOf(a_hist[t1].candidate_id) : a.fields = db_runs[i].fields

\* C10: when the extraction backend fails, the analysis analyze_candidate
\* returns has its five dimension scores 0, the decision "reject" and a
\* recommendation that starts with the failure marker.
C10_LlmFailureMarked ==
    \A ts \in CallNumbers :
        (a_hist[ts].llm_failed /\ a_hist[ts].outcome = "returned") =>
            LET r == a_hist[ts].returned
            IN  /\ r.skill_match_score = 0 /\ r.experience_score = 0
                /\ r.domain_score = 0 /\ r.project_complexity_score = 0
                /\ r.soft_skills_score = 0
                /\ r.decision = "reject"
                /\ r.recommendation[1] = FailureMarker

\* The five dimension scores and the final score (in hundredths) of a row.
ScoresInRange(fields) ==
    /\ \A k \in {"skill_match_score", "experience_score", "domain_score",
                  "project_complexity_score", "soft_skills_score"} :
           fields[k] >= 0 /\ fields[k] <= 100
    /\ fields.final_score >= 0 /\ fields.final_score <= 100 * 100

\* C11: whatever the backend returns for the dimension scores, the five
\* dimension scores and the final score of every stored CandidateAnalysisRun
\* and CandidateAnalysis row are in [0, 100].
C11_StoredScoresInRange ==
    /\ \A i \in 1..Len(db_runs) : ScoresInRange(db_runs[i].fields)
    /\ \A a \in db_analyses : ScoresInRange(a.fields)

C27_RetryKeepsWrites ==
    \A ts \in CallNumbers :
        LET cs == a_hist[ts].commits
        IN  (Len(cs) >= 2 /\ cs[Len(cs)].result = "ok") =>
                /\ Cardinality(RunsOfCall(ts)) = 1
                /\ a_hist[ts].upserted
                /\ a_hist[ts].outcome # "raised"
                /\ a_hist[ts].outcome = "returned" =>
                       \A i \in RunsOfCall(ts) :
                           a_hist[ts].returned = db_runs[i].fields
---------------------------------------------------------------------------
(* Scoring engine: Settings, ScoringEngine.score_candidate *)

\* What score_candidate did last; `scored` is FALSE before the first call.
NoScoring ==
    [scored |-> FALSE, settings |-> DefaultSettings,
     scores |-> <<0, 0, 0, 0, 0>>, risk_level |-> "low",
     final_score |-> 0, decision |-> "reject"]

\* The configurations the environment can hold when the process starts.
SettingsEnvs ==
    {DefaultSettings,
     [weights |-> [skill_match |-> 33, experience |-> 33, domain_knowledge |-> 34,
                   project_complexity |-> 0, soft_skills |-> 0],
      strong_hire |-> 70, borderline |-> 50],
     [weights |-> [skill_match |-> 100, experience |-> 0, domain_knowledge |-> 0,
                   project_complexity |-> 0, soft_skills |-> 0],
      strong_hire |-> 50, borderline |-> 60],
     [weights |-> [skill_match |-> 120, experience |-> 0 - 20, domain_knowledge |-> 0,
                   project_complexity |-> 0, soft_skills |-> 0],
      strong_hire |-> 80, borderline |-> 60],
     [weights |-> [skill_match |-> 40, experience |-> 25, domain_knowledge |-> 15,
                   project_complexity |-> 10, soft_skills |-> 5],
      strong_hire |-> 80, borderline |-> 60],
     [weights |-> [skill_match |-> 40, experience |-> 25, domain_knowledge |-> 15,
                   project_complexity |-> 10, soft_skills |-> 20],
      strong_hire |-> 80, borderline |-> 60]}

\* The dimension scores of an analysis, in tenths of a point, in the order
\* skill match, experience, domain, project complexity, soft skills.
ScoreVectors ==
    {<<600, 600, 600, 600, 600>>,
     <<650, 650, 650, 650, 650>>,
     <<800, 855, 800, 800, 800>>,
     <<803, 800, 800, 700, 900>>,
     <<900, 850, 900, 1000, 900>>}

\* validate_weights passes whatever the weights are.
validate_weights_Skipped(s) == TRUE

\* validate_weights: the five weights sum to 100.
validate_weights(s) ==
    s.weights.skill_match + s.weights.experience + s.weights.domain_knowledge
        + s.weights.project_complexity + s.weights.soft_skills = 100

\* The process starts: settings.py is imported and get_settings() builds the
\* Settings from the environment and validates the weights; a ValueError ends
\* the import, and with it every module that imports the settings.
GetSettings(env) ==
    /\ sc_load = "none"
    /\ sc_env' = env
    /\ sc_load' = IF validate_weights(env) THEN "loaded" ELSE "raised"
    /\ UNCHANGED <<sc_prev, sc_last, notScore>>

\* The process is stopped; the next start reads the environment again.
ProcessStop ==
    /\ sc_load # "none"
    /\ sc_load' = "none"
    /\ UNCHANGED <<sc_env, sc_prev, sc_last, notScore>>

\* score_candidate on the engine built from the loaded settings: final score,
\* then decision.  `tie` is how round() settles a value halfway between two
\* hundredths.
ScoreCandidate(scores, risk_level, tie) ==
    /\ sc_load = "loaded"
    /\ LET final == calculate_final_score(sc_env.weights, scores, tie)
       IN  sc_last' = [scored |-> TRUE, settings |-> sc_env,
                       scores |-> scores, risk_level |-> risk_level,
                       final_score |-> final,
                       decision |-> determine_decision(sc_env, final, risk_level)]
    /\ sc_prev' = sc_last
    /\ UNCHANGED <<sc_env, sc_load, notScore>>

NextScore ==
    \/ \E env \in SettingsEnvs : GetSettings(env)
    \/ ProcessStop
    \/ \E scores \in ScoreVectors, risk_level \in {"low", "medium", "high"}, tie \in BOOLEAN :
           ScoreCandidate(scores, risk_level, tie)

\* C12: calculate_final_score returns the sum over the five dimensions of
\* (dimension score x its own weight) / 100 rounded to 2 decimal places: the
\* result, a number of hundredths, is within half a hundredth of the sum.
C12_WeightedSumRounded ==
    sc_last.scored =>
        LET w == sc_last.settings.weights
            s == sc_last.scores
            thousandths == s[1] * w.skill_match + s[2] * w.experience
                           + s[3] * w.domain_knowledge
                           + s[4] * w.project_complexity
                           + s[5] * w.soft_skills
            diff == sc_last.final_score * 10 - thousandths
        IN  diff >= 0 - 5 /\ diff <= 5

\* A score whose weighted sum is not a whole number of hundredths was rounded.
C12_Witness ==
    /\ sc_last.scored
    /\ sc_last.settings.weights.skill_match = 33
    /\ sc_last.scores = <<803, 800, 800, 700, 900>>

\* C13: a configuration whose weights do not sum to 100 is rejected when the
\* settings are loaded, one that sums to 100 is accepted, and no engine ever
\* scored with weights that do not sum to 100.
C13_WeightsSumTo100 ==
    LET Sum(s) == s.weights.skill_match + s.weights.experience
                  + s.weights.domain_knowledge + s.weights.project_complexity
                  + s.weights.soft_skills
    IN  /\ sc_load = "raised" => Sum(sc_env) # 100
        /\ sc_load = "loaded" => Sum(sc_env) = 100
        /\ sc_last.scored => Sum(sc_last.settings) = 100
        /\ sc_prev.scored => Sum(sc_prev.settings) = 100

\* A start was rejected after an earlier process had scored.
C13_Witness == sc_load = "raised" /\ sc_last.scored

\* C14: with base cutoffs S and B, risk high uses S+10 and B+5, medium S+5
\* and B, low S and B; strong_hire if final >= adjusted S, else borderline if
\* final >= adjusted B, else reject.
C14_RiskAdjustedCutoffs ==
    sc_last.scored =>
        LET S == sc_last.settings.strong_hire
            B == sc_last.settings.borderline
            risk == sc_last.risk_level
            adjS == CASE risk = "high" -> S + 10
                      [] risk = "medium" -> S + 5
                      [] risk = "low" -> S
            adjB == CASE risk = "high" -> B + 5
                      [] risk = "medium" -> B
                      [] risk = "low" -> B
            final == sc_last.final_score
        IN  sc_last.decision =
                IF final >= adjS * 100 THEN "strong_hire"
                ELSE IF final >= adjB * 100 THEN "borderline"
                ELSE "reject"

\* A score between the base and the raised strong-hire cutoff, at high risk.
C14_Witness ==
    /\ sc_last.scored
    /\ sc_last.risk_level = "high"
    /\ sc_last.final_score >= sc_last.settings.strong_hire * 100
    /\ sc_last.decision = "borderline"

\* C15: of two scorings under the same settings, at the same risk level the
\* higher final score never has the lower decision, and at the same final
\* score the higher risk level never has the higher decision.
C15_DecisionMonotonic ==
    LET DecisionRank(d) ==
            CASE d = "reject" -> 0 [] d = "borderline" -> 1 [] d = "strong_hire" -> 2
        RiskRank(r) ==
            CASE r = "low" -> 0 [] r = "medium" -> 1 [] r = "high" -> 2
    IN
    (sc_prev.scored /\ sc_last.scored /\ sc_prev.settings = sc_last.settings) =>
        /\ (sc_prev.risk_level = sc_last.risk_level
              /\ sc_prev.final_score <= sc_last.final_score)
           => DecisionRank(sc_prev.decision) <= DecisionRank(sc_last.decision)
        /\ (sc_prev.risk_level = sc_last.risk_level
              /\ sc_prev.final_score >= sc_last.final_score)
           => DecisionRank(sc_prev.decision) >= DecisionRank(sc_last.decision)
        /\ (sc_prev.final_score = sc_last.final_score
              /\ RiskRank(sc_prev.risk_level) <= RiskRank(sc_last.risk_level))
           => DecisionRank(sc_prev.decision) >= DecisionRank(sc_last.decision)
        /\ (sc_prev.final_score = sc_last.final_score
              /\ RiskRank(sc_prev.risk_level) >= RiskRank(sc_last.risk_level))
           => DecisionRank(sc_prev.decision) <= DecisionRank(sc_last.decision)

\* The same final score got a lower decision at a higher risk level.
C15_Witness ==
    /\ sc_prev.scored /\ sc_last.scored
    /\ sc_prev.settings = sc_last.settings
    /\ sc_prev.final_score = sc_last.final_score
    /\ sc_prev.risk_level = "low" /\ sc_last.risk_level = "high"
    /\ sc_prev.decision = "strong_hire" /\ sc_last.decision = "borderline"

---------------------------------------------------------------------------
(* Interview questions: HiringAgent._ensure_min_interview_questions *)

\* The four question categories, in the order ensure_minimum is called.
QuestionKeys ==
    <<"technical_questions", "system_design_questions", "behavioral_questions",
      "custom_questions">>

\* What the f-strings use: skills[0] or its default, jd.title or its default,
\* jd.domain or its default.
Contexts ==
    {[primary_skill |-> "Python", role_title |-> "Backend Engineer",
      domain |-> "payments"],
     [primary_skill |-> "the core technologies", role_title |-> "this role",
      domain |-> "the domain"]}

\* The five fallback templates of a category (texts shortened).
Fallbacks(key, ctx) ==
    CASE key = "technical_questions" ->
           <<<<"Walk through a recent project where you used ", ctx.primary_skill, ".">>,
             <<"How do you validate correctness and reliability in your ",
               ctx.primary_skill, " work?">>,
             <<"Explain a performance issue you diagnosed and fixed.">>,
             <<"Describe your approach to testing and code reviews.">>,
             <<"How do you handle backward compatibility and deployment risk?">>>>
      [] key = "system_design_questions" ->
           <<<<"Design a scalable service relevant to ", ctx.role_title, ".">>,
             <<"How would you design data storage and access patterns for ",
               ctx.domain, " workloads?">>,
             <<"Discuss how you would handle failures, retries, and observability.">>,
             <<"How would you scale the system as traffic grows 10x?">>,
             <<"Describe tradeoffs between consistency and availability.">>>>
      [] key = "behavioral_questions" ->
           <<<<"Tell me about a time you disagreed with a teammate.">>,
             <<"Describe a situation where you had to learn a new technology quickly.">>,
             <<"Give an example of a project you led end-to-end.">>,
             <<"Tell me about a time you received critical feedback.">>,
             <<"Describe a time you improved a process or team outcome.">>>>
      [] key = "custom_questions" ->
           <<<<"What would your 30-60-90 day plan look like for ", ctx.role_title, "?">>,
             <<"Which part of the job description are you most excited about and why?">>,
             <<"What risks do you see in this role?">>,
             <<"How do you decide when to ask for help?">>,
             <<"Tell us about a tradeoff you made in a recent project.">>>>

\* An item of a JSON list: a string, or something else (a number, an object).
StrItem(text) == [str |-> TRUE, text |-> text]
OtherItem == [str |-> FALSE, text |-> <<>>]

\* A JSON value of the backend's reply: null, a string, or a list.
JsonNull == [kind |-> "null", items |-> <<>>]
JsonList(items) == [kind |-> "list", items |-> items]

\* What the backend can return for a category.
QuestionValues(key, ctx) ==
    {JsonNull,
     [kind |-> "str", items |-> <<>>],
     JsonList(<<>>),
     JsonList(<<StrItem(<<" ">> \o <<"Question 1?">> \o <<" ">>), StrItem(<<" ", " ">>),
                OtherItem, StrItem(<<>>), StrItem(<<"Question 2?">>)>>),
     JsonList(<<StrItem(Fallbacks(key, ctx)[2]), StrItem(<<"Question 1?">>),
                StrItem(Fallbacks(key, ctx)[1])>>),
     JsonList(<<StrItem(<<"Question 1?">>), StrItem(<<"Question 2?">>), StrItem(<<"Question 3?">>),
                StrItem(<<"Question 3?">>), StrItem(<<"Question 5?">>), StrItem(<<"Question 6?">>)>>)}

\* _normalize_analysis_data for one list field: a value that is not a list
\* becomes the empty list.
NormalizeField(value) ==
    IF value.kind = "list" THEN value ELSE JsonList(<<>>)

\* normalize_list that keeps blank strings.
normalize_list_KeepBlank(value) ==
    IF value.kind # "list" THEN <<>>
    ELSE LET strs == SelectSeq(value.items, LAMBDA it : it.str)
         IN  [i \in 1..Len(strs) |-> Strip(strs[i].text)]

RECURSIVE CleanItems(_)
CleanItems(items) ==
    IF items = <<>> THEN <<>>
    ELSE LET item == Head(items)
             stripped == Strip(item.text)
         IN  (IF item.str /\ stripped # <<>> THEN <<stripped>> ELSE <<>>)
                 \o CleanItems(Tail(items))

\* normalize_list: the stripped non-blank strings of a list, in order.
normalize_list(value) ==
    IF value.kind # "list" THEN <<>> ELSE CleanItems(value.items)

\* The while loop of ensure_minimum: one question per iteration until there
\* are five.
RECURSIVE FillUp(_, _, _)
FillUp(questions, key, ctx) ==
    IF Len(questions) >= 5 THEN questions
    ELSE FillUp(Append(questions,
                       <<"Additional ", key, " question ",
                         ToString(Len(questions) + 1), " for ", ctx.role_title, ".">>),
                key, ctx)

\* The handler is entered with the backend's (normalised) analysis_data.
QuestionsStart(ctx) ==
    /\ q_pc \in {"idle", "done"}
    /\ q_pc' = "read"
    /\ q_ctx' = ctx
    /\ q_todo' = QuestionKeys
    /\ q_raw' = [k \in DOMAIN q_raw |-> JsonNull]
    /\ q_data' = [k \in DOMAIN q_data |-> <<>>]
    /\ q_questions' = <<>>
    /\ q_fb' = 1
    /\ q_iters' = 0
    /\ UNCHANGED notQuestions

\* ensure_minimum(key, fallbacks) begins: questions = normalize_list(...).
EnsureRead(value) ==
    /\ q_pc = "read"
    /\ value \in QuestionValues(Head(q_todo), q_ctx)
    /\ q_raw' = [q_raw EXCEPT ![Head(q_todo)] = value]
    /\ q_questions' = normalize_list(NormalizeField(value))
    /\ q_fb' = 1
    /\ q_iters' = 0
    /\ q_pc' = "fallbacks"
    /\ UNCHANGED <<q_ctx, q_todo, q_data, notQuestions>>

\* One iteration of `for fallback in fallbacks` that does not break.
FallbackStep ==
    /\ q_pc = "fallbacks"
    /\ q_fb <= 5
    /\ Len(q_questions) < 5
    /\ LET fallback == Fallbacks(Head(q_todo), q_ctx)[q_fb]
       IN  q_questions' = IF \E i \in 1..Len(q_questions) : q_questions[i] = fallback
                             THEN q_questions
                             ELSE Append(q_questions, fallback)
    /\ q_fb' = q_fb + 1
    /\ q_iters' = q_iters + 1
    /\ UNCHANGED <<q_pc, q_ctx, q_todo, q_raw, q_data, notQuestions>>

\* The for loop is left (break, or no fallback is left); the while loop fills
\* up to five and analysis_data[key] is assigned.
EnsureFinish ==
    /\ q_pc = "fallbacks"
    /\ q_fb > 5 \/ Len(q_questions) >= 5
    /\ LET filled == FillUp(q_questions, Head(q_todo), q_ctx)
       IN  /\ q_data' = [q_data EXCEPT ![Head(q_todo)] = filled]
           /\ q_iters' = q_iters + (Len(filled) - Len(q_questions))
           /\ q_questions' = filled
    /\ q_todo' = Tail(q_todo)
    /\ q_pc' = IF Tail(q_todo) = <<>> THEN "done" ELSE "read"
    /\ UNCHANGED <<q_fb, q_ctx, q_raw, notQuestions>>

NextQuestions ==
    \/ \E ctx \in Contexts : QuestionsStart(ctx)
    \/ \E ctx \in Contexts :
          \E value \in UNION {QuestionValues(QuestionKeys[i], ctx) : i \in 1..4} :
              EnsureRead(value)
    \/ FallbackStep
    \/ EnsureFinish

\* C16: after ensure_minimum every category holds at least 5 non-empty
\* questions whatever the backend returned for it, the questions the backend
\* returned (the strings of the list that are not blank, without surrounding
\* white space) come first and in order, and the loops of a category make at
\* most ten iterations (five of the for loop, five of the while loop).
C16_AtLeastFiveQuestions ==
    LET FinishedKeys ==
            IF q_pc = "idle" THEN {}
            ELSE {QuestionKeys[i] : i \in 1..4} \ {q_todo[i] : i \in 1..Len(q_todo)}
        ReturnedQuestions(value) ==
            IF value.kind # "list" THEN <<>>
            ELSE LET kept == SelectSeq(value.items,
                                 LAMBDA it : it.str /\ Strip(it.text) # <<>>)
                 IN  [i \in 1..Len(kept) |-> Strip(kept[i].text)]
    IN  /\ q_iters <= 10
        /\ \A k \in FinishedKeys :
              /\ Len(q_data[k]) >= 5
              /\ \A i \in 1..Len(q_data[k]) : Strip(q_data[k][i]) # <<>>
              /\ LET returned == ReturnedQuestions(q_raw[k])
                 IN  /\ Len(returned) <= Len(q_data[k])
                     /\ SubSeq(q_data[k], 1, Len(returned)) = returned

\* All four categories are done: one got null, one a list with blank and
\* non-string items, one a list that holds fallback templates, one six questions.
C16_Witness ==
    /\ q_pc = "done"
    /\ q_raw["technical_questions"] = JsonNull
    /\ Len(q_raw["system_design_questions"].items) = 5
    /\ Len(q_raw["behavioral_questions"].items) = 3
    /\ Len(q_data["custom_questions"]) = 6

---------------------------------------------------------------------------
(* Ranking: ScoringEngine.rank_candidates *)

\* The "final_score" of the dictionaries handed to rank_candidates; one has
\* no such key.
RankScores ==
    {[has_key |-> FALSE, value |-> 0], [has_key |-> TRUE, value |-> 0],
     [has_key |-> TRUE, value |-> 50], [has_key |-> TRUE, value |-> 80]}

\* The lists handed to rank_candidates: entry i is the i-th dictionary.
RankInputs ==
    UNION {[1..n -> RankScores] : n \in 0..MaxRanked}

\* x.get("final_score", 0)
ScoreKey(entry) ==
    IF entry.final_score.has_key THEN entry.final_score.value ELSE 0

\* sorted(candidates, key=..., reverse=False)[::-1]: descending, with the
\* entries of equal key in reverse order.
RECURSIVE SortedDescending_Reversed(_)
SortedDescending_Reversed(items) ==
    IF items = <<>> THEN <<>>
    ELSE LET best == CHOOSE i \in 1..Len(items) :
                         /\ \A j \in 1..Len(items) : ScoreKey(items[j]) <= ScoreKey(items[i])
                         /\ \A j \in (i + 1)..Len(items) :
                                ScoreKey(items[j]) < ScoreKey(items[i])
         IN  <<items[best]>> \o
                 SortedDescending_Reversed(SubSeq(items, 1, best - 1)
                                             \o SubSeq(items, best + 1, Len(items)))

\* sorted(candidates, key=..., reverse=True): descending by key and stable,
\* so each step takes the leftmost of the entries with the greatest key.
RECURSIVE SortedDescending(_)
SortedDescending(items) ==
    IF items = <<>> THEN <<>>
    ELSE LET best == CHOOSE i \in 1..Len(items) :
                         /\ \A j \in 1..Len(items) : ScoreKey(items[j]) <= ScoreKey(items[i])
                         /\ \A j \in 1..(i - 1) : ScoreKey(items[j]) < ScoreKey(items[i])
         IN  <<items[best]>> \o
                 SortedDescending(SubSeq(items, 1, best - 1)
                                    \o SubSeq(items, best + 1, Len(items)))

\* rank_candidates: the sorted list, each entry with candidate["rank"] = i.
rank_candidates(entries) ==
    LET ranked == SortedDescending(entries)
    IN  [i \in 1..Len(ranked) |->
            [position |-> ranked[i].position, final_score |-> ranked[i].final_score,
             rank |-> i]]

\* generate_hiring_report ranks the analyses of a job; `position` is where an
\* entry stands in the argument.
Rank(scores) ==
    /\ LET entries == [i \in 1..Len(scores) |->
                          [position |-> i, final_score |-> scores[i]]]
       IN  r_last' = [called |-> TRUE, candidates |-> entries,
                      ranked |-> rank_candidates(entries)]
    /\ UNCHANGED <<syncVars, dedupVars, gmailVars, outlookVars, analyzeVars,
                   scoreVars, questionVars, linkVars, logVars, cycleVars,
                   threadVars, graphVars, parseVars,
                   imapVars>>

NextRank == \E scores \in RankInputs : Rank(scores)

\* C25: rank_candidates returns the input entries ordered by final score
\* descending, entries with equal final score keep their original relative
\* order, and each entry gets rank = its 1-based position in the result.
C25_StableRanking ==
    r_last.called =>
        LET in == r_last.candidates
            out == r_last.ranked
            Score(e) == IF e.final_score.has_key THEN e.final_score.value ELSE 0
        IN  /\ Len(out) = Len(in)
            /\ \A i \in 1..Len(in) :
                   \E k \in 1..Len(out) :
                       out[k].position = i /\ out[k].final_score = in[i].final_score
            /\ \A k \in 1..Len(out) : out[k].rank = k
            /\ \A k, l \in 1..Len(out) :
                   k < l =>
                       \/ Score(out[k]) > Score(out[l])
                       \/ /\ Score(out[k]) = Score(out[l])
                          /\ out[k].position < out[l].position

\* A list with two pairs of equal scores, not in descending order, was ranked.
C25_Witness ==
    /\ r_last.called
    /\ Len(r_last.candidates) = 4
    /\ r_last.candidates[1].final_score.value = 50
    /\ r_last.candidates[2].final_score.value = 80
    /\ r_last.candidates[3].final_score.value = 50
    /\ r_last.candidates[4].final_score.value = 80
---------------------------------------------------------------------------
(* Graph access token: GraphClient with auth mode client_credentials *)

\* The GraphClient instances (one per OutlookIngestionService) and the
\* request calls, which may run concurrently on the event loop.
GraphInstances == {"A", "B"}
GraphCalls == {"c1", "c2", "c3"}

\* expires_in of the provider's answers, in seconds.
ProviderExpiresIn == {61, 62}

\* None for a token; the tokens are numbered in the order they are issued.
NoToken == [access_token |-> 0, expires_at |-> 0]

IdleGraphCall ==
    [pc |-> "idle", inst |-> "A", at |-> 0, known |-> 0, acquired |-> FALSE,
     result |-> 0]

\* `token and token.is_valid()`: datetime.now(timezone.utc) < expires_at.
IsValid(token) == token # NoToken /\ gc.now < token.expires_at

\* request on instance inst calls _get_access_token, which runs to its
\* return or to the await of _get_client_credentials_token.
GraphRequest(c, inst) ==
    /\ gc_call[c].pc = "idle"
    /\ LET call == [IdleGraphCall EXCEPT !.inst = inst, !.at = gc.now,
                                         !.known = Len(gc.tokens)]
       IN  IF IsValid(gc.shared)
              THEN /\ gc_token' = [gc_token EXCEPT ![inst] = gc.shared]
                   /\ gc_call' = [gc_call EXCEPT ![c] =
                          [call EXCEPT !.pc = "done",
                                       !.result = gc.shared.access_token]]
                   /\ UNCHANGED gc
           ELSE IF IsValid(gc_token[inst])
              THEN /\ gc' = [gc EXCEPT !.shared = gc_token[inst]]
                   /\ gc_call' = [gc_call EXCEPT ![c] =
                          [call EXCEPT !.pc = "done",
                                       !.result = gc_token[inst].access_token]]
                   /\ UNCHANGED gc_token
              ELSE /\ gc_call' = [gc_call EXCEPT ![c] = [call EXCEPT !.pc = "acquiring"]]
                   /\ UNCHANGED <<gc, gc_token>>
    /\ UNCHANGED notGraph

\* acquire_token_for_client returns an access token: it is stored in
\* self._token and returned.
GraphAcquired(c, expires_in) ==
    /\ gc_call[c].pc = "acquiring"
    /\ LET token == [access_token |-> Len(gc.tokens) + 1,
                     expires_at |-> gc.now + expires_in - 60]
       IN  /\ gc' = [gc EXCEPT !.tokens = Append(@, token)]
           /\ gc_token' = [gc_token EXCEPT ![gc_call[c].inst] = token]
           /\ gc_call' = [gc_call EXCEPT ![c].pc = "done", ![c].acquired = TRUE,
                                         ![c].result = token.access_token]
    /\ UNCHANGED notGraph

\* acquire_token_for_client returns no access token: ValueError.
GraphAcquireFails(c) ==
    /\ gc_call[c].pc = "acquiring"
    /\ gc_call' = [gc_call EXCEPT ![c].pc = "raised"]
    /\ UNCHANGED <<gc, gc_token, notGraph>>

\* A second passes.
GraphTick ==
    /\ gc.now < MaxTime
    /\ gc' = [gc EXCEPT !.now = @ + 1]
    /\ UNCHANGED <<gc_token, gc_call, notGraph>>

NextGraph ==
    \/ \E c \in GraphCalls, inst \in GraphInstances : GraphRequest(c, inst)
    \/ \E c \in GraphCalls, expires_in \in ProviderExpiresIn : GraphAcquired(c, expires_in)
    \/ \E c \in GraphCalls : GraphAcquireFails(c)
    \/ GraphTick

\* C36: token refresh is single-flight: whatever the interleaving of the
\* request calls that find no valid cached token, at most one acquisition
\* against the identity provider is in flight at a time.
C36_SingleFlight ==
    Cardinality({c \in GraphCalls : gc_call[c].pc = "acquiring"}) <= 1

\* C37: once a token is acquired, every later _get_access_token call made
\* before its expires_at, on any GraphClient instance, returns a token
\* acquired before the call without a new acquisition; and no call returns a
\* cached token at or after its expires_at.
C37_SharedUntilExpiry ==
    \A c \in GraphCalls :
        gc_call[c].pc = "done" =>
            /\ (\E k \in 1..gc_call[c].known :
                    gc_call[c].at < gc.tokens[k].expires_at) =>
                  /\ ~gc_call[c].acquired
                  /\ gc_call[c].result <= gc_call[c].known
            /\ ~gc_call[c].acquired =>
                  gc_call[c].at < gc.tokens[gc_call[c].result].expires_at
---------------------------------------------------------------------------
(* JSON extraction: OllamaService.invoke_with_json (llm/ollama_service.py).  *)
(* A completion is a sequence of lexical units:                              *)
(*   "f"  a code fence mark       "j"  the word json                         *)
(*   " "  white space             "w"  a word of prose                       *)
(*   "{" "}" ","                  "1"  a number        "n"  null             *)
(*   "p"  a member "key": value   "m"  a member 'key': value (single quotes) *)

ResponseTokens == {"f", "j", " ", "w", "{", "}", ",", "1", "n", "p", "m"}

\* Parsed values: JSON null / Python None, a number, an object with members.
PNull == [type |-> "null", members |-> <<>>]
PNumber == [type |-> "number", members |-> <<>>]
PDict(members) == [type |-> "dict", members |-> members]

NotInvoked == [called |-> FALSE, raised |-> FALSE, by |-> 0, value |-> PNull]
Returned(by, value) == [called |-> TRUE, raised |-> FALSE, by |-> by, value |-> value]
Raised == [called |-> TRUE, raised |-> TRUE, by |-> 0, value |-> PNull]

StartsWith(text, prefix) ==
    Len(text) >= Len(prefix) /\ SubSeq(text, 1, Len(prefix)) = prefix

EndsWith(text, suffix) ==
    Len(text) >= Len(suffix)
        /\ SubSeq(text, Len(text) - Len(suffix) + 1, Len(text)) = suffix

\* The text between the code fences, stripped.
StripFences(response) ==
    LET json_text == Strip(response)
        opened == IF StartsWith(json_text, <<"f", "j">>)
                      THEN SubSeq(json_text, 3, Len(json_text))
                  ELSE IF StartsWith(json_text, <<"f">>)
                      THEN SubSeq(json_text, 2, Len(json_text))
                  ELSE json_text
        closed == IF EndsWith(opened, <<"f">>)
                      THEN SubSeq(opened, 1, Len(opened) - 1)
                      ELSE opened
    IN  Strip(closed)

\* re.sub(r",\s*([}\]])", r"\1", text): a comma, and the white space after it,
\* goes when a closing brace follows.
RECURSIVE sanitize(_)
sanitize(text) ==
    IF text = <<>> THEN <<>>
    ELSE IF Head(text) = ","
            /\ StripLeft(Tail(text)) # <<>>
            /\ Head(StripLeft(Tail(text))) = "}"
        THEN sanitize(StripLeft(Tail(text)))
    ELSE <<Head(text)>> \o sanitize(Tail(text))

NoSpace(text) == SelectSeq(text, LAMBDA c : c # " ")

\* member (, member)* over the member units in allowed.
RECURSIVE IsMembers(_, _)
IsMembers(units, allowed) ==
    /\ units # <<>>
    /\ Head(units) \in allowed
    /\ \/ Len(units) = 1
       \/ /\ Len(units) >= 3
          /\ units[2] = ","
          /\ IsMembers(SubSeq(units, 3, Len(units)), allowed)

MembersOf(units) == SelectSeq(units, LAMBDA c : c # ",")

\* One value and nothing else; white space between the units is free.  With
\* trailing = TRUE a comma may close the member list (Python, not JSON).
LoadValue(text, allowed, trailing) ==
    LET units == NoSpace(text)
        inner == SubSeq(units, 2, Len(units) - 1)
        body == IF trailing /\ inner # <<>> /\ inner[Len(inner)] = ","
                    /\ Len(inner) >= 2
                    THEN SubSeq(inner, 1, Len(inner) - 1)
                    ELSE inner
    IN  IF units = <<"n">> THEN [ok |-> TRUE, value |-> PNull]
        ELSE IF units = <<"1">> THEN [ok |-> TRUE, value |-> PNumber]
        ELSE IF Len(units) >= 2 /\ units[1] = "{" /\ units[Len(units)] = "}"
                /\ (body = <<>> => inner = <<>>)
                /\ (body # <<>> => IsMembers(body, allowed))
            THEN [ok |-> TRUE, value |-> PDict(MembersOf(body))]
        ELSE [ok |-> FALSE, value |-> PNull]

\* json.loads: ok = FALSE is JSONDecodeError.
JsonLoads(text) == LoadValue(text, {"p"}, FALSE)

\* ast.literal_eval after null has become None: ok = FALSE is an exception.
LiteralEval(text) == LoadValue(text, {"p", "m"}, TRUE)

\* try_json_load returns the parsed value, or None when json.loads raised.
try_json_load(text) ==
    LET loaded == JsonLoads(sanitize(text))
    IN  IF loaded.ok THEN loaded.value ELSE PNull

\* re.search(r"\{[\s\S]*\}", text): from the leftmost "{" to the last "}"
\* after it.
Opens(text) == {i \in 1..Len(text) : text[i] = "{"}
Closes(text) == {i \in 1..Len(text) : text[i] = "}"}
FirstOpen(text) == CHOOSE i \in Opens(text) : \A k \in Opens(text) : i <= k
LastClose(text) == CHOOSE i \in Closes(text) : \A k \in Closes(text) : k <= i
HasSpan(text) ==
    Opens(text) # {} /\ Closes(text) # {} /\ FirstOpen(text) < LastClose(text)
Span(text) == SubSeq(text, FirstOpen(text), LastClose(text))

invoke_with_json(response) ==
    LET json_text == StripFences(response)
        parsed == try_json_load(json_text)
        matched == IF HasSpan(json_text) THEN try_json_load(Span(json_text))
                                         ELSE PNull
        data == LiteralEval(sanitize(json_text))
    IN  IF parsed # PNull THEN Returned(1, parsed)
        ELSE IF HasSpan(json_text) /\ matched # PNull THEN Returned(2, matched)
        ELSE IF data.ok /\ data.value.type = "dict" THEN Returned(3, data.value)
        ELSE Raised

\* The backend produces one more unit of the completion.
LlmEmit(token) ==
    /\ ~json_result.called
    /\ Len(response_text) < MaxResponse
    /\ response_text' = Append(response_text, token)
    /\ UNCHANGED <<json_result, notParse>>

\* invoke_with_json on the completion.
InvokeWithJson ==
    /\ ~json_result.called
    /\ json_result' = invoke_with_json(response_text)
    /\ UNCHANGED <<response_text, notParse>>

NextParse ==
    \/ \E token \in ResponseTokens : LlmEmit(token)
    \/ InvokeWithJson

\* What the three parse attempts make of the completion, each on its own.
DirectParse == JsonLoads(sanitize(StripFences(response_text)))
SpanParse ==
    IF HasSpan(StripFences(response_text))
        THEN JsonLoads(sanitize(Span(StripFences(response_text))))
        ELSE [ok |-> FALSE, value |-> PNull]
LiteralParse == LiteralEval(sanitize(StripFences(response_text)))

\* C38: invoke_with_json strips the code fences and then tries, in this order
\* and each after stripping trailing commas, the direct JSON parse, the parse
\* of the first {...} span and the literal-syntax fallback; it returns the
\* result of the first attempt that succeeds, and raises only when all three
\* have failed.
C38_FirstSuccess ==
    json_result.called =>
        IF DirectParse.ok THEN json_result = Returned(1, DirectParse.value)
        ELSE IF SpanParse.ok THEN json_result = Returned(2, SpanParse.value)
        ELSE IF LiteralParse.ok THEN json_result = Returned(3, LiteralParse.value)
        ELSE json_result = Raised

---------------------------------------------------------------------------
(* Outlook over IMAP: ImapIngestionService (imap_ingestion_service.py).      *)
(* The folder is the sequence of its messages; a message's sequence number   *)
(* is its position, so removing a message renumbers the ones after it.  The  *)
(* field msg of a message, and of of a row, say which delivered message it   *)
(* is: they are not data the service has.                                    *)

\* An attachment: a resume, a file with no text in it, a file whose extension
\* is not allowed.
AttachmentLists == {<<>>, <<"resume">>, <<"blank">>, <<"other", "resume">>}

SearchStatuses == {"OK", "NO"}

\* A message is delivered to the folder.
MailArrives(attachments) ==
    /\ im_next < MaxMail
    /\ im_next' = im_next + 1
    /\ im_box' = Append(im_box, [msg |-> im_next + 1, seen |-> FALSE,
                                 attachments |-> attachments])
    /\ UNCHANGED <<im_rows, im_pc, im_msgs, im_skipped, im_runs, notImap>>

\* The owner of the mailbox deletes or moves a message.
MailExpunge(n) ==
    /\ n \in 1..Len(im_box)
    /\ im_box' = SubSeq(im_box, 1, n - 1) \o SubSeq(im_box, n + 1, Len(im_box))
    /\ UNCHANGED <<im_next, im_rows, im_pc, im_msgs, im_skipped, im_runs, notImap>>

\* imap.search(None, "UNSEEN"): the sequence numbers of the unseen messages.
Unseen(box) == SelectSeq([n \in 1..Len(box) |-> n], LAMBDA n : ~box[n].seen)

\* _fetch_unread_messages: the search, then a fetch of RFC822 per number,
\* which sets \Seen on the message.
ImapFetch(status) ==
    /\ im_pc = "idle"
    /\ im_runs < MaxImapRuns
    /\ im_runs' = im_runs + 1
    /\ im_pc' = "fetched"
    /\ im_skipped' = {}
    /\ IF status # "OK"
          THEN /\ im_msgs' = <<>>
               /\ UNCHANGED im_box
          ELSE /\ im_msgs' = [k \in 1..Len(Unseen(im_box)) |->
                                 [uid |-> Unseen(im_box)[k],
                                  msg |-> im_box[Unseen(im_box)[k]].msg,
                                  attachments |-> im_box[Unseen(im_box)[k]].attachments]]
               /\ im_box' = [n \in 1..Len(im_box) |-> [im_box[n] EXCEPT !.seen = TRUE]]
    /\ UNCHANGED <<im_next, im_rows, notImap>>

\* The row the dedup query of _process_attachment finds.
Existing(rows, message_uid, attachment_id) ==
    {row \in rows : /\ row.source_message_id = message_uid
                    /\ row.source_attachment_id = attachment_id}

\* The dedup key of an attachment.
AttachmentId(uid, index) == <<uid, index>>

\* The inner loop of ingest_unread over the attachments of one message, from
\* index on.
RECURSIVE ProcessAttachments(_, _, _)
ProcessAttachments(message, index, acc) ==
    IF index > Len(message.attachments) THEN acc
    ELSE LET kind == message.attachments[index]
             found == Existing(acc.rows, message.uid, AttachmentId(message.uid, index))
         IN  IF kind = "other"
                 THEN ProcessAttachments(message, index + 1, acc)
             ELSE IF found # {}
                 THEN ProcessAttachments(message, index + 1,
                        [acc EXCEPT !.successful = @ + 1,
                                    !.skipped = @ \cup
                                        {[msg |-> message.msg, index |-> index,
                                          of |-> (CHOOSE row \in found : TRUE).of]}])
             ELSE IF kind = "blank"
                 THEN ProcessAttachments(message, index + 1,
                        [acc EXCEPT !.errors = @ + 1])
             ELSE ProcessAttachments(message, index + 1,
                        [acc EXCEPT !.successful = @ + 1,
                                    !.rows = @ \cup
                                        {[source_message_id |-> message.uid,
                                          source_attachment_id |->
                                              AttachmentId(message.uid, index),
                                          of |-> message.msg]}])

\* imap.store(uid, "+FLAGS", "\\Seen") on a new connection.
MarkRead(box, uid) ==
    IF uid \in 1..Len(box) THEN [box EXCEPT ![uid].seen = TRUE] ELSE box

\* The outer loop of ingest_unread.
RECURSIVE ProcessMessages(_, _)
ProcessMessages(messages, acc) ==
    IF messages = <<>> THEN acc
    ELSE LET after == ProcessAttachments(Head(messages), 1,
                                         [acc EXCEPT !.successful = 0])
         IN  ProcessMessages(Tail(messages),
                IF after.successful > 0
                    THEN [after EXCEPT !.box = MarkRead(@, Head(messages).uid)]
                    ELSE after)

\* ingest_unread after the fetch.
ImapProcess ==
    /\ im_pc = "fetched"
    /\ LET done == ProcessMessages(im_msgs,
                       [rows |-> im_rows, box |-> im_box, skipped |-> {},
                        successful |-> 0, errors |-> 0])
       IN  /\ im_rows' = done.rows
           /\ im_box' = done.box
           /\ im_skipped' = done.skipped
    /\ im_pc' = "idle"
    /\ im_msgs' = <<>>
    /\ UNCHANGED <<im_next, im_runs, notImap>>

NextImap ==
    \/ \E attachments \in AttachmentLists : MailArrives(attachments)
    \/ \E n \in 1..MaxMail : MailExpunge(n)
    \/ \E status \in SearchStatuses : ImapFetch(status)
    \/ ImapProcess

\* C40: an attachment is skipped as already ingested only when the stored row
\* with its dedup key came from the same mailbox message: no attachment of a
\* message that was never ingested is skipped because an earlier, different
\* message carried the same identifier.
C40_KeyDenotesMessage ==
    \A skip \in im_skipped : skip.of = skip.msg

---------------------------------------------------------------------------
(* Specifications *)

\* After start-up: no sync in progress, empty stores, empty mailboxes.
Init ==
    /\ sync_lock = FALSE
    /\ sync_waiters = <<>>
    /\ pc = [t \in Tasks |-> IF t = Scheduler THEN "created" ELSE "idle"]
    /\ sched = [interval_seconds |-> 0, cancel |-> FALSE, failed |-> 0]
    /\ todo = [t \in Tasks |-> 0]
    /\ cycles = 0
    /\ candidates = <<>>
    /\ last_sub = [api |-> "none", name |-> <<>>, email |-> None,
                   outcome |-> "none", again |-> FALSE]
    /\ unread = {}
    /\ g_pc = "idle"
    /\ g_msgs = <<>>
    /\ g_att = 1
    /\ g_successful = 0
    /\ g_result = EmptyResult
    /\ g_cycles = 0
    /\ g_before = {}
    /\ g_now = {}
    /\ g_seen = {}
    /\ last_att = [key |-> <<0, 0>>, outcome |-> "none", duplicates |-> 0,
                   before |-> FALSE]
    /\ o_unread = {}
    /\ o_rows = <<>>
    /\ o_pc = [r \in Requests |-> "idle"]
    /\ o_msgs = [r \in Requests |-> <<>>]
    /\ o_atts = [r \in Requests |-> <<>>]
    /\ o_successful = [r \in Requests |-> 0]
    /\ o_result = [r \in Requests |-> EmptyIngestionResult]
    /\ o_runs = 0
    /\ db_runs = <<>>
    /\ db_analyses = {}
    /\ db_writer = "none"
    /\ a_pc = [c \in Callers |-> "idle"]
    /\ a_call = [c \in Callers |-> IdleCall]
    /\ a_session_ok = [c \in Callers |-> TRUE]
    /\ a_hist = <<>>
    /\ clock = 0
    /\ sc_env = DefaultSettings
    /\ sc_load = "none"
    /\ sc_prev = NoScoring
    /\ sc_last = NoScoring
    /\ q_pc = "idle"
    /\ q_ctx = CHOOSE ctx \in Contexts : ctx.primary_skill = "Python"
    /\ q_todo = <<>>
    /\ q_raw = [i \in {QuestionKeys[j] : j \in 1..4} |-> JsonNull]
    /\ q_data = [i \in {QuestionKeys[j] : j \in 1..4} |-> <<>>]
    /\ q_questions = <<>>
    /\ q_fb = 1
    /\ q_iters = 0
    /\ k_jobs = <<>>
    /\ k_cands = {}
    /\ k_next = 1
    /\ k_links = <<>>
    /\ k_link_id = 0
    /\ k_bulk = 0
    /\ k_last = [called |-> FALSE, resume_text |-> <<>>, jobs |-> <<>>,
                 scores |-> <<>>, links |-> <<>>]
    /\ log_entries = <<>>
    /\ log_adds = 0
    /\ log_listed = NotListed
    /\ r_last = [called |-> FALSE, candidates |-> <<>>, ranked |-> <<>>]
    /\ s_loop = NoLoop
    /\ s_links = <<>>
    /\ s_texts = <<>>
    /\ s_result = NoSyncResult
    /\ th = [t \in Threads |-> IdleThread]
    /\ log_lock = "none"
    /\ log_order = <<>>
    /\ gc = [now |-> 0, shared |-> NoToken, tokens |-> <<>>]
    /\ gc_token = [i \in GraphInstances |-> NoToken]
    /\ gc_call = [c \in GraphCalls |-> IdleGraphCall]
    /\ response_text = <<>>
    /\ json_result = NotInvoked
    /\ im_box = <<>>
    /\ im_next = 0
    /\ im_rows = {}
    /\ im_pc = "idle"
    /\ im_msgs = <<>>
    /\ im_skipped = {}
    /\ im_runs = 0

\* The analysis writer at work: one candidate is stored.
InitAnalyze ==
    /\ sync_lock = FALSE
    /\ sync_waiters = <<>>
    /\ pc = [t \in Tasks |-> IF t = Scheduler THEN "created" ELSE "idle"]
    /\ sched = [interval_seconds |-> 0, cancel |-> FALSE, failed |-> 0]
    /\ todo = [t \in Tasks |-> 0]
    /\ cycles = 0
    /\ candidates = <<[name |-> JD, email |-> Some(<<"a", "x", "b">>)]>>
    /\ last_sub = [api |-> "none", name |-> <<>>, email |-> None,
                   outcome |-> "none", again |-> FALSE]
    /\ unread = {}
    /\ g_pc = "idle"
    /\ g_msgs = <<>>
    /\ g_att = 1
    /\ g_successful = 0
    /\ g_result = EmptyResult
    /\ g_cycles = 0
    /\ g_before = {}
    /\ g_now = {}
    /\ g_seen = {}
    /\ last_att = [key |-> <<0, 0>>, outcome |-> "none", duplicates |-> 0,
                   before |-> FALSE]
    /\ o_unread = {}
    /\ o_rows = <<>>
    /\ o_pc = [r \in Requests |-> "idle"]
    /\ o_msgs = [r \in Requests |-> <<>>]
    /\ o_atts = [r \in Requests |-> <<>>]
    /\ o_successful = [r \in Requests |-> 0]
    /\ o_result = [r \in Requests |-> EmptyIngestionResult]
    /\ o_runs = 0
    /\ db_runs = <<>>
    /\ db_analyses = {}
    /\ db_writer = "none"
    /\ a_pc = [c \in Callers |-> "idle"]
    /\ a_call = [c \in Callers |-> IdleCall]
    /\ a_session_ok = [c \in Callers |-> TRUE]
    /\ a_hist = <<>>
    /\ clock = 0
    /\ sc_env = DefaultSettings
    /\ sc_load = "none"
    /\ sc_prev = NoScoring
    /\ sc_last = NoScoring
    /\ q_pc = "idle"
    /\ q_ctx = CHOOSE ctx \in Contexts : ctx.primary_skill = "Python"
    /\ q_todo = <<>>
    /\ q_raw = [i \in {QuestionKeys[j] : j \in 1..4} |-> JsonNull]
    /\ q_data = [i \in {QuestionKeys[j] : j \in 1..4} |-> <<>>]
    /\ q_questions = <<>>
    /\ q_fb = 1
    /\ q_iters = 0
    /\ k_jobs = <<>>
    /\ k_cands = {}
    /\ k_next = 1
    /\ k_links = <<>>
    /\ k_link_id = 0
    /\ k_bulk = 0
    /\ k_last = [called |-> FALSE, resume_text |-> <<>>, jobs |-> <<>>,
                 scores |-> <<>>, links |-> <<>>]
    /\ log_entries = <<>>
    /\ log_adds = 0
    /\ log_listed = NotListed
    /\ r_last = [called |-> FALSE, candidates |-> <<>>, ranked |-> <<>>]
    /\ s_loop = NoLoop
    /\ s_links = <<>>
    /\ s_texts = <<>>
    /\ s_result = NoSyncResult
    /\ th = [t \in Threads |-> IdleThread]
    /\ log_lock = "none"
    /\ log_order = <<>>
    /\ gc = [now |-> 0, shared |-> NoToken, tokens |-> <<>>]
    /\ gc_token = [i \in GraphInstances |-> NoToken]
    /\ gc_call = [c \in GraphCalls |-> IdleGraphCall]
    /\ response_text = <<>>
    /\ json_result = NotInvoked
    /\ im_box = <<>>
    /\ im_next = 0
    /\ im_rows = {}
    /\ im_pc = "idle"
    /\ im_msgs = <<>>
    /\ im_skipped = {}
    /\ im_runs = 0

SpecSync == Init /\ [][NextSync]_vars

SpecDedup == Init /\ [][NextDedup]_vars

SpecGmail == Init /\ [][NextGmail]_vars

\* The cycle with its scheduling: an external call returns or fails, and the
\* event loop runs the code between two calls.  The second conjunct is the
\* weak fairness of GmailAttachment, written out with AttachmentPending for
\* its enabling condition.
SpecGmailLive ==
    /\ SpecGmail
    /\ WF_vars(CycleStep)
    /\ \/ []<>(~AttachmentPending)
       \/ []<><<\E llm \in LlmNames : GmailAttachment(llm)>>_vars

SpecOutlook == Init /\ [][NextOutlook]_vars

SpecAnalyze == InitAnalyze /\ [][NextAnalyze]_vars

SpecScore == Init /\ [][NextScore]_vars

SpecQuestions == Init /\ [][NextQuestions]_vars

SpecLink == Init /\ [][NextLink]_vars

SpecLog == Init /\ [][NextLog]_vars

\* The activity log under its threads.
SpecLogThreads == Init /\ [][NextLogThreads]_vars

SpecGraph == Init /\ [][NextGraph]_vars
SpecParse == Init /\ [][NextParse]_vars
SpecImap == Init /\ [][NextImap]_vars

SpecRank == Init /\ [][NextRank]_vars

====
